---------------------------- MODULE Spec2Model ----------------------------
(***************************************************************************)
(* Quasarr, src/quasarr/downloads/linkcrypters/al.py: the Click'n'Load     *)
(* container decoder (class CNL), the batch decryptor (decrypt_content)    *)
(* and the captcha solver (solve_captcha) with its pixel difference;       *)
(* src/quasarr/providers/sessions/dl.py: the stored session;               *)
(* src/quasarr/downloads/sources/dl.py and src/quasarr/search/sources/     *)
(* dl.py: the two users of the stored session.                             *)
(*                                                                         *)
(* Python values are modelled as tagged records.  A str is the sequence of *)
(* its code points, a bytes object the sequence of its byte values.        *)
(* A call that raises is a record with ok = FALSE and the exception type.  *)
(***************************************************************************)
EXTENDS Integers, Sequences, FiniteSets, TLC

VARIABLES
    (* one CNL object: CNL(chosen_data) followed by .decrypt() *)
    chosen_data,        \* the constructor argument
    ref,                \* how chosen_data was produced (ghost)
    cnl_pc,             \* "new" | "constructed" | "init_raised" | "returned" | "decrypt_raised"
    cnl_err,            \* exception type of a raised call, "" otherwise
    fixed_key_hex,      \* self.fixed_key_hex, <<>> while unset
    aes_calls,          \* number of _aes_decrypt calls made (ghost)
    cnl_urls,           \* the list decrypt() returned
    (* one call decrypt_content(content_items, mirror) *)
    content_items,      \* the argument: a list of items
    mirror,             \* the argument: None or a str
    dc_pc,              \* "start" | "loop" | "returned" | "raised"
    dc_err,             \* exception type that escaped the call, "" otherwise
    filtered,           \* the items to process, each by its position in content_items
    idx,                \* number of loop iterations completed
    decrypted_links,    \* the result list
    log,                \* the info()/debug() records written, in order
    attempted,          \* loop indices for which CNL(item) was constructed (ghost)
    (* calls of calculate_pixel_based_difference on two normalized images *)
    img1,
    img2,
    diff12,             \* the value of calculate_pixel_based_difference(img1, img2)
    diff21,             \* the value of calculate_pixel_based_difference(img2, img1)
    diff11,             \* the value of calculate_pixel_based_difference(img1, img1)
    (* calls solve_captcha(...), one per caller; every variable is a function *)
    (* of the caller and holds that call's local of the same name             *)
    gateway,            \* the answers the two fetch capabilities may give to the caller
    cap_pc,             \* "idle" | "request" | "fetch" | "normalize" | "diffs" | "select"
                        \* | "submit" | "done" | "failed"
    raw_ids,
    images,
    pil_images,
    diffs_pil,
    identified_captcha_image,
    cum_pct_pil,
    cap_calls,          \* the calls of the fetch capabilities made, with their answers (ghost)
    cap_log,            \* the info() record written
    cap_result,         \* the dict returned
    cap_err,            \* exception type that ended the call, "" otherwise
    (* the session store of hostname "dl" and the threads that use it; the   *)
    (* variables after next_id are functions of the thread                   *)
    credentials,        \* config("DL"): xf_session and xf_cookie
    store,              \* database("sessions").retrieve("dl")
    next_id,            \* identity the next requests.Session() object gets (ghost)
    dl_kind,            \* "idle" | "download" (get_dl_download_links) | "search" (dl_search)
    dl_pc,              \* "idle" | "retrieve" | "create" | "cps_store" | "request"
                        \* | "persist" | "extract" | "page" | "invalidate" | "done"
    dl_site,            \* who called retrieve_and_validate_session: "outer" | "fetch"
    sess,               \* the local sess of the innermost function
    login,              \* how the last login check of the thread ended (ghost)
    resp,               \* the response the last request returned
    page_num,
    search_id,
    dl_calls,           \* the requests sent with the session, with their answers (ghost)
    dl_ret              \* the path the call returned on, "" while running

cnl_vars == <<chosen_data, ref, cnl_pc, cnl_err, fixed_key_hex, aes_calls, cnl_urls>>

dc_vars == <<content_items, mirror, dc_pc, dc_err, filtered, idx, decrypted_links,
             log, attempted>>

px_vars == <<img1, img2, diff12, diff21, diff11>>

cap_vars == <<gateway, cap_pc, raw_ids, images, pil_images, diffs_pil,
              identified_captcha_image, cum_pct_pil, cap_calls, cap_log, cap_result,
              cap_err>>

ss_vars == <<credentials, store, next_id, dl_kind, dl_pc, dl_site, sess, login, resp,
             page_num, search_id, dl_calls, dl_ret>>

vars == <<cnl_vars, dc_vars, px_vars, cap_vars, ss_vars>>

----------------------------------------------------------------------------
(* Bounds of the model *)

\* total size of a URL list given to the reference encryption:
\* characters plus separators between URLs
MaxText == 3

\* number of items in content_items
MaxItems == 3

\* number of pixels of an image
MaxPixels == 2

----------------------------------------------------------------------------
(* Python values *)

PyStr(s) == [t |-> "str", s |-> s]
PyNone == [t |-> "none", s |-> <<>>]
PyMissing == [t |-> "missing", s |-> <<>>]
PyInt(n) == [t |-> "int", s |-> <<n>>]

\* bool(v) as `not v` / `if v` evaluate it
Truthy(v) ==
    CASE v.t = "str" -> Len(v.s) > 0
      [] v.t = "int" -> v.s[1] # 0
      [] OTHER -> FALSE

\* d.get(key) on a present/absent entry: an absent key reads as None
DictGet(v) == IF v.t = "missing" THEN PyNone ELSE v

Dict(jk, crypted) == [t |-> "dict", jk |-> jk, crypted |-> crypted]
NotDict(tag) == [t |-> tag, jk |-> PyMissing, crypted |-> PyMissing]

Ok(v) == [ok |-> TRUE, err |-> "", val |-> v]
Raise(e) == [ok |-> FALSE, err |-> e, val |-> <<>>]

----------------------------------------------------------------------------
(* Normalized images: RGB, a size and the pixels row by row *)

Image(w, h, px) == [size |-> <<w, h>>, px |-> px]

NoImage == Image(0, 0, <<>>)

\* a float that is the quotient of two integers, in lowest terms
NoValue == [set |-> FALSE, num |-> 0, den |-> 1]

PxIdle ==
    /\ img1 = NoImage
    /\ img2 = NoImage
    /\ diff12 = NoValue
    /\ diff21 = NoValue
    /\ diff11 = NoValue

\* the callers of solve_captcha
Callers == {1, 2}

\* no candidate id
NoId == 0

\* a gateway that is not asked anything
NoGateway == [challenges |-> {}, bodies |-> {}, texts |-> {}]

ResolutionWithoutText(response, captcha_id) == [response |-> <<>>, captcha_id |-> captcha_id]

\* the dict solve_captcha returns
Resolution(response, captcha_id) == [response |-> response, captcha_id |-> captcha_id]

NoResolution == Resolution(<<>>, NoId)

\* a 64-bit float: (hi * 2^29 + lo) * 2^-50
Float(hi, lo) == [hi |-> hi, lo |-> lo]

\* the info() record of solve_captcha
NoCaptchaLog == [id |-> NoId, pct |-> 0]

CapIdle ==
    /\ gateway = [p \in Callers |-> NoGateway]
    /\ cap_pc = [p \in Callers |-> "idle"]
    /\ raw_ids = [p \in Callers |-> <<>>]
    /\ images = [p \in Callers |-> <<>>]
    /\ pil_images = [p \in Callers |-> <<>>]
    /\ diffs_pil = [p \in Callers |-> <<>>]
    /\ identified_captcha_image = [p \in Callers |-> NoId]
    /\ cum_pct_pil = [p \in Callers |-> Float(0, 0)]
    /\ cap_calls = [p \in Callers |-> <<>>]
    /\ cap_log = [p \in Callers |-> NoCaptchaLog]
    /\ cap_result = [p \in Callers |-> NoResolution]
    /\ cap_err = [p \in Callers |-> ""]

\* the threads that use the stored session
Threads == {1, 2}

\* a requests.Session object, by the identity it was created with
Session(id) == [t |-> "session", id |-> id]

\* None in the place of a session
NoSession == [t |-> "none", id |-> 0]

\* an object that is no requests.Session
Foreign == [t |-> "dict", id |-> 0]

\* a stored token: a str that is empty, that does not load, or that is the
\* base64 text of the pickle of obj
Token(kind, obj) == [t |-> kind, obj |-> obj]

\* db.retrieve(hostname) when nothing is stored
NoToken == Token("none", NoSession)

\* config(hostname.upper()) with its two cookie values
Credentials(xf_session, xf_cookie) == [xf_session |-> xf_session, xf_cookie |-> xf_cookie]

\* a response: status code, the digits of /search/<digits>/ in response.url
\* (NoId when the URL has none), the number of result rows or links of the page
Response(status_code, url_id, rows) ==
    [t |-> "response", status_code |-> status_code, url_id |-> url_id, rows |-> rows]

NoResponse == [t |-> "none", status_code |-> 0, url_id |-> NoId, rows |-> 0]

SsIdle ==
    /\ credentials = Credentials(PyNone, PyNone)
    /\ store = NoToken
    /\ next_id = 1
    /\ dl_kind = [th \in Threads |-> "idle"]
    /\ dl_pc = [th \in Threads |-> "idle"]
    /\ dl_site = [th \in Threads |-> "outer"]
    /\ sess = [th \in Threads |-> NoSession]
    /\ login = [th \in Threads |-> ""]
    /\ resp = [th \in Threads |-> NoResponse]
    /\ page_num = [th \in Threads |-> 0]
    /\ search_id = [th \in Threads |-> NoId]
    /\ dl_calls = [th \in Threads |-> <<>>]
    /\ dl_ret = [th \in Threads |-> ""]

----------------------------------------------------------------------------
(* Sequences *)

RECURSIVE Flatten(_)
Flatten(ss) == IF ss = <<>> THEN <<>> ELSE Head(ss) \o Flatten(Tail(ss))

RECURSIVE Without(_, _)
\* bytes.replace(bytes([b]), b""): every occurrence of b removed
Without(s, b) ==
    IF s = <<>> THEN <<>>
    ELSE IF Head(s) = b THEN Without(Tail(s), b)
    ELSE <<Head(s)>> \o Without(Tail(s), b)

Repeat(b, n) == [i \in 1..n |-> b]

RECURSIVE Xor(_, _)
Xor(a, b) ==
    IF a = 0 THEN b
    ELSE IF b = 0 THEN a
    ELSE ((a + b) % 2) + 2 * Xor(a \div 2, b \div 2)

----------------------------------------------------------------------------
(* bytes.fromhex *)

IsAsciiSpace(c) == c \in {9, 10, 11, 12, 13, 32}

IsHexDigit(c) == (c \in 48..57) \/ (c \in 65..70) \/ (c \in 97..102)

HexVal(c) ==
    IF c \in 48..57 THEN c - 48
    ELSE IF c \in 65..70 THEN c - 55
    ELSE c - 87

RECURSIVE FromHexFrom(_, _, _)
\* whitespace is skipped between bytes; a byte is two adjacent hex digits
FromHexFrom(s, i, acc) ==
    IF i > Len(s) THEN Ok(acc)
    ELSE IF IsAsciiSpace(s[i]) THEN FromHexFrom(s, i + 1, acc)
    ELSE IF i + 1 <= Len(s) /\ IsHexDigit(s[i]) /\ IsHexDigit(s[i + 1])
         THEN FromHexFrom(s, i + 2, Append(acc, 16 * HexVal(s[i]) + HexVal(s[i + 1])))
    ELSE Raise("ValueError")

FromHex(s) == FromHexFrom(s, 1, <<>>)

----------------------------------------------------------------------------
(* base64.b64decode(s) with validate=False *)

B64Pad == 61

IsB64Char(c) == (c \in 65..90) \/ (c \in 97..122) \/ (c \in 48..57) \/ c = 43 \/ c = 47

B64Val(c) ==
    IF c \in 65..90 THEN c - 65
    ELSE IF c \in 97..122 THEN c - 71
    ELSE IF c \in 48..57 THEN c + 4
    ELSE IF c = 43 THEN 62
    ELSE 63

RECURSIVE A2bBase64(_, _, _, _, _, _)
\* binascii.a2b_base64, non-strict: characters outside the alphabet are
\* discarded, a complete pad sequence ends the input, and leftover data
\* characters are an error
A2bBase64(s, i, quad_pos, leftchar, pads, acc) ==
    IF i > Len(s)
    THEN IF quad_pos # 0 THEN Raise("ValueError") ELSE Ok(acc)
    ELSE LET c == s[i] IN
         IF c = B64Pad
         THEN IF quad_pos >= 2 /\ quad_pos + pads + 1 >= 4
              THEN Ok(acc)
              ELSE A2bBase64(s, i + 1, quad_pos, leftchar,
                             IF quad_pos >= 2 THEN pads + 1 ELSE pads, acc)
         ELSE IF ~IsB64Char(c)
         THEN A2bBase64(s, i + 1, quad_pos, leftchar, pads, acc)
         ELSE LET v == B64Val(c) IN
              CASE quad_pos = 0 -> A2bBase64(s, i + 1, 1, v, 0, acc)
                [] quad_pos = 1 ->
                     A2bBase64(s, i + 1, 2, v % 16, 0,
                               Append(acc, leftchar * 4 + (v \div 16)))
                [] quad_pos = 2 ->
                     A2bBase64(s, i + 1, 3, v % 4, 0,
                               Append(acc, leftchar * 16 + (v \div 4)))
                [] OTHER ->
                     A2bBase64(s, i + 1, 0, 0, 0, Append(acc, leftchar * 64 + v))

\* a str argument is first encoded as ASCII; anything else but bytes is a TypeError
B64Decode(v) ==
    IF v.t # "str" THEN Raise("TypeError")
    ELSE IF \E i \in 1..Len(v.s) : v.s[i] > 127 THEN Raise("ValueError")
    ELSE A2bBase64(v.s, 1, 0, 0, 0, <<>>)

----------------------------------------------------------------------------
(* bytes.decode("utf-8") *)

IsCont(b) == b \in 128..191

RECURSIVE Utf8DecodeFrom(_, _, _)
Utf8DecodeFrom(b, i, acc) ==
    IF i > Len(b) THEN Ok(acc)
    ELSE LET c == b[i]
             n == Len(b)
         IN
         IF c < 128 THEN Utf8DecodeFrom(b, i + 1, Append(acc, c))
         ELSE IF c \in 194..223 /\ i + 1 <= n /\ IsCont(b[i + 1])
         THEN Utf8DecodeFrom(b, i + 2, Append(acc, (c - 192) * 64 + (b[i + 1] - 128)))
         ELSE IF c \in 224..239 /\ i + 2 <= n /\ IsCont(b[i + 1]) /\ IsCont(b[i + 2])
                 /\ (c = 224 => b[i + 1] >= 160) /\ (c = 237 => b[i + 1] <= 159)
         THEN Utf8DecodeFrom(b, i + 3,
                  Append(acc, (c - 224) * 4096 + (b[i + 1] - 128) * 64 + (b[i + 2] - 128)))
         ELSE IF c \in 240..244 /\ i + 3 <= n
                 /\ IsCont(b[i + 1]) /\ IsCont(b[i + 2]) /\ IsCont(b[i + 3])
                 /\ (c = 240 => b[i + 1] >= 144) /\ (c = 244 => b[i + 1] <= 143)
         THEN Utf8DecodeFrom(b, i + 4,
                  Append(acc, (c - 240) * 262144 + (b[i + 1] - 128) * 4096
                              + (b[i + 2] - 128) * 64 + (b[i + 3] - 128)))
         ELSE Raise("UnicodeDecodeError")

Utf8Decode(b) == Utf8DecodeFrom(b, 1, <<>>)

----------------------------------------------------------------------------
(* str.splitlines and str.strip *)

\* the line boundaries of str.splitlines: LF VT FF CR FS GS RS NEL LS PS
IsLineBreak(c) == c \in {10, 11, 12, 13, 28, 29, 30, 133, 8232, 8233}

\* str.isspace, the characters str.strip() removes
IsSpace(c) ==
    \/ c \in 9..13
    \/ c \in 28..32
    \/ c \in {133, 160, 5760, 8232, 8233, 8239, 8287, 12288}
    \/ c \in 8192..8202

RECURSIVE SplitLinesFrom(_, _, _, _)
\* "\r\n" is one boundary; no line is produced after a final boundary
SplitLinesFrom(s, i, cur, acc) ==
    IF i > Len(s) THEN (IF cur = <<>> THEN acc ELSE Append(acc, cur))
    ELSE IF IsLineBreak(s[i])
         THEN IF s[i] = 13 /\ i + 1 <= Len(s) /\ s[i + 1] = 10
              THEN SplitLinesFrom(s, i + 2, <<>>, Append(acc, cur))
              ELSE SplitLinesFrom(s, i + 1, <<>>, Append(acc, cur))
    ELSE SplitLinesFrom(s, i + 1, Append(cur, s[i]), acc)

SplitLines(s) == SplitLinesFrom(s, 1, <<>>, <<>>)

\* bool(line.strip())
NonEmptyLine(line) == line # <<>>

\* bool(line.strip())
StripTruthy(line) == \E i \in 1..Len(line) : ~IsSpace(line[i])

RECURSIVE NonBlankLines(_)
NonBlankLines(ls) ==
    IF ls = <<>> THEN <<>>
    ELSE IF StripTruthy(Head(ls)) THEN <<Head(ls)>> \o NonBlankLines(Tail(ls))
    ELSE NonBlankLines(Tail(ls))

----------------------------------------------------------------------------
(* AES.new(key, AES.MODE_CBC, iv) and cipher.decrypt(data)                 *)
(* The AES block permutation itself is library code; it is represented by  *)
(* a keyed bijection on 16-byte blocks (rotate the block by one position,  *)
(* add the key bytes modulo 256).  CBC chaining, the key and IV length     *)
(* checks and the block-length check are those of the library.             *)

BlockSize == 16

AesDecryptBlock(key, c) ==
    [j \in 1..BlockSize |->
        LET i == ((j + BlockSize - 2) % BlockSize) + 1
        IN (c[i] + 256 - key[i]) % 256]

RECURSIVE CbcDecrypt(_, _, _)
\* P[n] = D(C[n]) xor C[n-1], with C[0] = iv
CbcDecrypt(key, prev, data) ==
    IF data = <<>> THEN <<>>
    ELSE LET c == SubSeq(data, 1, BlockSize)
             d == AesDecryptBlock(key, c)
         IN [i \in 1..BlockSize |-> Xor(d[i], prev[i])]
            \o CbcDecrypt(key, c, SubSeq(data, BlockSize + 1, Len(data)))

\* AES.new: the key is 16, 24 or 32 bytes and the IV one block
AesNewOk(key_bytes, iv) == Len(key_bytes) \in {16, 24, 32} /\ Len(iv) = BlockSize

\* cipher.decrypt: the data is a whole number of blocks
AesDataOk(data) == Len(data) % BlockSize = 0

----------------------------------------------------------------------------
(* class CNL *)

\* list(self.jk) with positions 15 and 16 exchanged (0-indexed)
SwapKeyAssignOnly(k_list) ==
    [i \in 1..Len(k_list) |-> IF i = 16 THEN k_list[17] ELSE k_list[i]]

SwapKey(k_list) ==
    [i \in 1..Len(k_list) |->
        IF i = 16 THEN k_list[17] ELSE IF i = 17 THEN k_list[16] ELSE k_list[i]]

KeyTooShortOffByOne(k_list) == Len(k_list) < 16

KeyTooShort(k_list) == Len(k_list) <= 16

\* CNL.__init__: the value is self.fixed_key_hex
CNL_init(item) ==
    LET cnl_info == IF item.cnl.t = "missing" THEN Dict(PyMissing, PyMissing) ELSE item.cnl
    IN
    IF cnl_info.t # "dict" THEN Raise("AttributeError")
    ELSE LET jk == DictGet(cnl_info.jk)
             crypted_blob == DictGet(cnl_info.crypted)
         IN
         IF ~Truthy(jk) \/ ~Truthy(crypted_blob) THEN Raise("KeyError")
         ELSE IF jk.t # "str" THEN Raise("TypeError")
         ELSE IF KeyTooShort(jk.s) THEN Raise("ValueError")
         ELSE IF Len(jk.s) < 17 THEN Raise("IndexError")
         ELSE Ok(SwapKey(jk.s))

\* self.crypted_blob of a constructed object
CryptedBlob(item) == DictGet(item.cnl.crypted)

\* CNL._aes_decrypt(data_b64, key_hex)
aes_decrypt(data_b64, key_hex) ==
    LET encrypted_data == B64Decode(data_b64)
        key_bytes == FromHex(key_hex)
    IN
    IF ~encrypted_data.ok THEN Raise("ValueError")
    ELSE IF ~key_bytes.ok THEN Raise("ValueError")
    ELSE IF ~AesNewOk(key_bytes.val, key_bytes.val) THEN Raise("ValueError")
    ELSE IF ~AesDataOk(encrypted_data.val) THEN Raise("ValueError")
    ELSE Ok(CbcDecrypt(key_bytes.val, key_bytes.val, encrypted_data.val))

StripPaddingNulOnly(raw_plain) == Without(raw_plain, 0)

\* raw_plain.replace(b"\x00", b"").replace(b"\x08", b"")
StripPadding(raw_plain) == Without(Without(raw_plain, 0), 8)

\* [line for line in text.splitlines() if line.strip()]
UrlLines(text) == NonBlankLines(SplitLines(text))

\* CNL.decrypt()
decrypt(crypted_blob, key_hex) ==
    LET raw_plain == aes_decrypt(crypted_blob, key_hex) IN
    IF ~raw_plain.ok THEN raw_plain
    ELSE LET text == Utf8Decode(StripPadding(raw_plain.val)) IN
         IF ~text.ok THEN Raise("ValueError")
         ELSE Ok(UrlLines(text.val))

----------------------------------------------------------------------------
(* The reference encryption of the round-trip property: the URLs joined    *)
(* with CRLF, UTF-8 encoded, padded with one of the padding bytes to a     *)
(* whole number of blocks (at least one), CBC-encrypted under the swapped  *)
(* key with the key as IV, base64-encoded.                                 *)

RECURSIVE RefJoin(_)
RefJoin(urls) ==
    IF urls = <<>> THEN <<>>
    ELSE IF Len(urls) = 1 THEN Head(urls)
    ELSE Head(urls) \o <<13, 10>> \o RefJoin(Tail(urls))

RefUtf8Char(c) ==
    IF c < 128 THEN <<c>>
    ELSE IF c < 2048 THEN <<192 + (c \div 64), 128 + (c % 64)>>
    ELSE IF c < 65536 THEN <<224 + (c \div 4096), 128 + ((c \div 64) % 64), 128 + (c % 64)>>
    ELSE <<240 + (c \div 262144), 128 + ((c \div 4096) % 64),
           128 + ((c \div 64) % 64), 128 + (c % 64)>>

RefUtf8Encode(text) == Flatten([i \in 1..Len(text) |-> RefUtf8Char(text[i])])

RefPad(plain, pad) ==
    LET n == IF plain = <<>> THEN BlockSize
             ELSE (BlockSize - (Len(plain) % BlockSize)) % BlockSize
    IN plain \o Repeat(pad, n)

RefSwap(jk) ==
    [i \in 1..Len(jk) |-> IF i = 16 THEN jk[17] ELSE IF i = 17 THEN jk[16] ELSE jk[i]]

RefEncryptBlock(key, p) ==
    [i \in 1..BlockSize |-> (p[(i % BlockSize) + 1] + key[i]) % 256]

RECURSIVE RefCbcEncrypt(_, _, _)
RefCbcEncrypt(key, prev, plain) ==
    IF plain = <<>> THEN <<>>
    ELSE LET x == [i \in 1..BlockSize |-> Xor(plain[i], prev[i])]
             c == RefEncryptBlock(key, x)
         IN c \o RefCbcEncrypt(key, c, SubSeq(plain, BlockSize + 1, Len(plain)))

RefB64Char(v) ==
    IF v < 26 THEN 65 + v
    ELSE IF v < 52 THEN 71 + v
    ELSE IF v < 62 THEN v - 4
    ELSE IF v = 62 THEN 43
    ELSE 47

RECURSIVE RefB64Encode(_)
RefB64Encode(b) ==
    IF b = <<>> THEN <<>>
    ELSE IF Len(b) = 1
         THEN <<RefB64Char(b[1] \div 4), RefB64Char((b[1] % 4) * 16), B64Pad, B64Pad>>
    ELSE IF Len(b) = 2
         THEN <<RefB64Char(b[1] \div 4), RefB64Char((b[1] % 4) * 16 + (b[2] \div 16)),
                RefB64Char((b[2] % 16) * 4), B64Pad>>
    ELSE <<RefB64Char(b[1] \div 4), RefB64Char((b[1] % 4) * 16 + (b[2] \div 16)),
           RefB64Char((b[2] % 16) * 4 + (b[3] \div 64)), RefB64Char(b[3] % 64)>>
         \o RefB64Encode(SubSeq(b, 4, Len(b)))

RefEncrypt(urls, jk, pad) ==
    LET key == FromHex(RefSwap(jk)).val
    IN RefB64Encode(RefCbcEncrypt(key, key, RefPad(RefUtf8Encode(RefJoin(urls)), pad)))

----------------------------------------------------------------------------
(* Inputs of one CNL object *)

HexDigitLower(n) == IF n < 10 THEN 48 + n ELSE 87 + n
HexDigitUpper(n) == IF n < 10 THEN 48 + n ELSE 55 + n

\* key material: lower-case hex, upper-case hex, and letters that are no hex digits
KeyA == [i \in 1..48 |-> HexDigitLower((7 * i + 3) % 16)]
KeyB == [i \in 1..48 |-> HexDigitUpper((5 * i + 1) % 16)]
KeyG == [i \in 1..48 |-> 103 + (i % 5)]

KeyLens == {0, 1, 15, 16, 17, 18, 32, 33, 48}

KeyStrings == {SubSeq(k, 1, n) : k \in {KeyA, KeyB, KeyG}, n \in KeyLens}

\* the keys AES accepts with the key as IV: 32 hex digits
ValidKeys == {SubSeq(KeyA, 1, 32), SubSeq(KeyB, 1, 32)}

PadBytes == {0, 8}

\* the key and the padding byte of a reference encryption: the lower-case
\* key with 0x00 padding, the upper-case key with 0x08 padding
KeyPads == {<<SubSeq(KeyA, 1, 32), 0>>, <<SubSeq(KeyB, 1, 32), 8>>}

\* characters of the URLs given to the reference encryption:
\* NUL, BS, LF, FF, CR, space, "a", e-acute
UrlChars == {0, 8, 10, 12, 13, 32, 97, 233}

RECURSIVE SplitSyms(_, _, _)
\* a sequence of characters and separators (-1) as the list of URLs it spells
SplitSyms(s, cur, acc) ==
    IF s = <<>> THEN Append(acc, cur)
    ELSE IF Head(s) < 0 THEN SplitSyms(Tail(s), <<>>, Append(acc, cur))
    ELSE SplitSyms(Tail(s), Append(cur, Head(s)), acc)

UrlLists ==
    {<<>>} \cup
    {SplitSyms(s, <<>>, <<>>) :
        s \in UNION {[1..n -> UrlChars \cup {-1}] : n \in 0..MaxText}}

HosterX == PyStr(<<88>>)

RefItem(urls, jk, pad) ==
    [hoster |-> HosterX, cnl |-> Dict(PyStr(jk), PyStr(RefEncrypt(urls, jk, pad)))]

GoodBlob == RefEncrypt(<<<<97>>>>, SubSeq(KeyA, 1, 32), 0)

\* payload fields as they arrive: absent, null, of the wrong type, empty,
\* intact, cut short by one character, with one character replaced by "!",
\* with "!" put in front, with "A" put after the padding
RawKeys == {PyMissing, PyNone, PyInt(7)} \cup {PyStr(k) : k \in KeyStrings}

RawBlobs ==
    {PyMissing, PyInt(7), PyStr(<<>>), PyStr(GoodBlob),
     PyStr(SubSeq(GoodBlob, 1, Len(GoodBlob) - 1)),
     PyStr(<<33>> \o Tail(GoodBlob)),
     PyStr(<<33>> \o GoodBlob),
     PyStr(GoodBlob \o <<65>>)}

RawCnls ==
    {NotDict("missing"), NotDict("none")}
    \cup {Dict(jk, b) : jk \in RawKeys, b \in RawBlobs}

NoItem == [hoster |-> PyMissing, cnl |-> NotDict("missing")]
NoRef == [kind |-> "none", urls |-> <<>>, jk |-> <<>>, pad |-> 0]

----------------------------------------------------------------------------
(* One CNL object: CNL(chosen_data), then .decrypt() *)

CnlIdle ==
    /\ chosen_data = NoItem
    /\ ref = NoRef
    /\ cnl_pc = "idle"
    /\ cnl_err = ""
    /\ fixed_key_hex = <<>>
    /\ aes_calls = 0
    /\ cnl_urls = <<>>

CnlStart ==
    /\ \/ \E urls \in UrlLists, kp \in KeyPads :
            /\ kp[1] \in ValidKeys /\ kp[2] \in PadBytes
            /\ chosen_data = RefItem(urls, kp[1], kp[2])
            /\ ref = [kind |-> "ref", urls |-> urls, jk |-> kp[1], pad |-> kp[2]]
       \/ \E c \in RawCnls :
            /\ chosen_data = [hoster |-> HosterX, cnl |-> c]
            /\ ref = [kind |-> "raw", urls |-> <<>>, jk |-> <<>>, pad |-> 0]
    /\ cnl_pc = "new"
    /\ cnl_err = ""
    /\ fixed_key_hex = <<>>
    /\ aes_calls = 0
    /\ cnl_urls = <<>>

\* decryptor = CNL(item)
Construct ==
    /\ cnl_pc = "new"
    /\ LET r == CNL_init(chosen_data) IN
        /\ cnl_pc' = IF r.ok THEN "constructed" ELSE "init_raised"
        /\ cnl_err' = r.err
        /\ fixed_key_hex' = r.val
    /\ UNCHANGED <<chosen_data, ref, aes_calls, cnl_urls>>
    /\ UNCHANGED <<dc_vars, px_vars, cap_vars, ss_vars>>

\* urls = decryptor.decrypt()
Decrypt ==
    /\ cnl_pc = "constructed"
    /\ LET r == decrypt(CryptedBlob(chosen_data), fixed_key_hex) IN
        /\ cnl_pc' = IF r.ok THEN "returned" ELSE "decrypt_raised"
        /\ cnl_err' = r.err
        /\ cnl_urls' = r.val
    /\ aes_calls' = aes_calls + 1
    /\ UNCHANGED <<chosen_data, ref, fixed_key_hex>>
    /\ UNCHANGED <<dc_vars, px_vars, cap_vars, ss_vars>>

DcIdle ==
    /\ content_items = <<>>
    /\ mirror = PyNone
    /\ dc_pc = "idle"
    /\ dc_err = ""
    /\ filtered = <<>>
    /\ idx = 0
    /\ decrypted_links = <<>>
    /\ log = <<>>
    /\ attempted = {}

InitCNL == CnlStart /\ DcIdle /\ PxIdle /\ CapIdle /\ SsIdle

NextCNL == Construct \/ Decrypt

SpecCNL == InitCNL /\ [][NextCNL]_vars

----------------------------------------------------------------------------
(* Properties of the container decoder *)

CnlDone == cnl_pc \in {"init_raised", "decrypt_raised", "returned"}

InputKey == DictGet(chosen_data.cnl.jk)

NoPaddingBytes(urls) ==
    \A u \in 1..Len(urls) : \A i \in 1..Len(urls[u]) : urls[u][i] \notin {0, 8}

NoCrLf(urls) ==
    \A u \in 1..Len(urls) : \A i \in 1..Len(urls[u]) : urls[u][i] \notin {10, 13}

NoLineBoundary(urls) ==
    \A u \in 1..Len(urls) : \A i \in 1..Len(urls[u]) :
        urls[u][i] \notin {10, 11, 12, 13, 28, 29, 30, 133, 8232, 8233}

NonBlankUrls(urls) ==
    \A u \in 1..Len(urls) : \E i \in 1..Len(urls[u]) :
        urls[u][i] \notin (9..13) \cup (28..32) \cup (8192..8202)
                           \cup {133, 160, 5760, 8232, 8233, 8239, 8287, 12288}

RoundTrips ==
    /\ cnl_pc \notin {"init_raised", "decrypt_raised"}
    /\ cnl_pc = "returned" => cnl_urls = ref.urls

NonEmptyUrls(urls) == \A u \in 1..Len(urls) : urls[u] # <<>>

C2_SelfInverse ==
    (InputKey.t = "str" /\ Len(InputKey.s) > 16
        /\ cnl_pc \in {"constructed", "returned", "decrypt_raised"}) =>
        /\ Len(fixed_key_hex) = Len(InputKey.s)
        /\ fixed_key_hex[16] = InputKey.s[17]
        /\ fixed_key_hex[17] = InputKey.s[16]
        /\ \A i \in 1..Len(InputKey.s) :
               i \notin {16, 17} => fixed_key_hex[i] = InputKey.s[i]
        /\ SwapKey(fixed_key_hex) = InputKey.s

C2_Witness ==
    /\ InputKey.t = "str"
    /\ Len(InputKey.s) = 17
    /\ InputKey.s[16] # InputKey.s[17]
    /\ cnl_pc = "constructed"
    /\ fixed_key_hex # InputKey.s

\* C3: a key of at most 16 characters makes the constructor fail (the empty
\* key as a missing field, KeyError; any other as an invalid length,
\* ValueError): no fixed key is set and _aes_decrypt is never called.
C3_ShortKeyFails ==
    (InputKey.t = "str" /\ Len(InputKey.s) <= 16 /\ chosen_data.cnl.t = "dict"
        /\ cnl_pc # "new") =>
        /\ cnl_pc = "init_raised"
        /\ cnl_err = IF InputKey.s = <<>> \/ ~Truthy(DictGet(chosen_data.cnl.crypted))
                     THEN "KeyError" ELSE "ValueError"
        /\ fixed_key_hex = <<>>
        /\ aes_calls = 0
        /\ cnl_urls = <<>>

C3_Witness ==
    /\ InputKey.t = "str"
    /\ Len(InputKey.s) = 16
    /\ cnl_pc = "init_raised"
    /\ cnl_err = "ValueError"

----------------------------------------------------------------------------
(* Inputs of decrypt_content *)

KeyA32 == SubSeq(KeyA, 1, 32)
KeyB32 == SubSeq(KeyB, 1, 32)

\* the URL lists of the two intact payloads: ["a", "b"] and ["c"]
UrlsA == <<<<97>>, <<98>>>>
UrlsB == <<<<99>>>>

BlobA == RefEncrypt(UrlsA, KeyA32, 0)
BlobB == RefEncrypt(UrlsB, KeyB32, 8)

PayloadA == Dict(PyStr(KeyA32), PyStr(BlobA))
PayloadB == Dict(PyStr(KeyB32), PyStr(BlobB))
\* one base64 character replaced by "!"
PayloadCorrupt == Dict(PyStr(KeyA32), PyStr(<<33>> \o Tail(BlobA)))
PayloadNoJk == Dict(PyMissing, PyStr(BlobA))
PayloadNoCrypted == Dict(PyStr(KeyA32), PyMissing)

HosterXy == PyStr(<<88, 121>>)
HosterLowerX == PyStr(<<120>>)

\* items of the documented shape: hoster a str or absent, cnl a dict or absent
ShapedHosters == <<PyMissing, HosterXy, HosterLowerX>>
ShapedCnls == <<NotDict("missing"), PayloadA, PayloadB, PayloadCorrupt>>

\* items with a null or wrongly typed field, or without jk or crypted
UnusualItems ==
    <<[hoster |-> PyNone, cnl |-> PayloadA],
      [hoster |-> HosterXy, cnl |-> PayloadNoJk],
      [hoster |-> HosterXy, cnl |-> NotDict("none")],
      [hoster |-> HosterXy, cnl |-> Dict(PyInt(7), PyStr(BlobA))],
      [hoster |-> HosterXy, cnl |-> PayloadNoCrypted]>>

NumShaped == Len(ShapedHosters) * Len(ShapedCnls)
NumKinds == NumShaped + Len(UnusualItems)

\* the k-th kind of item
ItemOfKind(k) ==
    IF k <= NumShaped
    THEN [hoster |-> ShapedHosters[((k - 1) \div Len(ShapedCnls)) + 1],
          cnl |-> ShapedCnls[((k - 1) % Len(ShapedCnls)) + 1]]
    ELSE UnusualItems[k - NumShaped]

\* lists of shaped items in which at most one item is unusual, as lists of kinds
KindLists ==
    {ks \in UNION {[1..n -> 1..NumKinds] : n \in 0..MaxItems} :
        Cardinality({i \in DOMAIN ks : ks[i] > NumShaped}) <= 1}

Mirrors == {PyNone, PyStr(<<>>), PyStr(<<88>>)}

----------------------------------------------------------------------------
(* decrypt_content(content_items, mirror) *)

\* `sub in s` on two str
Equals(sub, s) == sub = s

Contains(sub, s) ==
    \E i \in 0..(Len(s) - Len(sub)) : SubSeq(s, i + 1, i + Len(sub)) = sub

\* item.get("hoster", "")
HosterOrEmpty(item) == IF item.hoster.t = "missing" THEN PyStr(<<>>) ELSE item.hoster

\* item.get("hoster", "<unknown>")
HosterName(item) ==
    IF item.hoster.t = "missing"
    THEN PyStr(<<60, 117, 110, 107, 110, 111, 119, 110, 62>>)
    ELSE item.hoster

RECURSIVE MatchingFrom(_, _, _)
\* [item for item in content_items if mirror in item.get("hoster", "")]:
\* `in` raises TypeError on a hoster that is no str
MatchingFrom(items, m, i) ==
    IF i > Len(items) THEN Ok(<<>>)
    ELSE IF HosterOrEmpty(items[i]).t # "str" THEN Raise("TypeError")
    ELSE LET rest == MatchingFrom(items, m, i + 1) IN
         IF ~rest.ok THEN rest
         ELSE IF Contains(m, HosterOrEmpty(items[i]).s) THEN Ok(<<i>> \o rest.val)
         ELSE rest

AllPositions(items) == [i \in 1..Len(items) |-> i]

NoFallback(matches, items) == matches

\* `if mirror and not filtered: filtered = content_items.copy()`
OrAll(matches, items) == IF matches = <<>> THEN AllPositions(items) ELSE matches

MissingBoth(jnk, crypted) == ~Truthy(jnk) /\ ~Truthy(crypted)

\* `if not jnk or not crypted`
MissingFields(jnk, crypted) == ~Truthy(jnk) \/ ~Truthy(crypted)

Prepend(links, urls) == urls \o links

\* decrypted_links.extend(urls)
Extend(links, urls) == links \o urls

\* CNL(item).decrypt(): the URL list, or the exception of whichever step raised
RunCNL(item) ==
    LET c == CNL_init(item) IN
    IF ~c.ok THEN c ELSE decrypt(CryptedBlob(item), c.val)

\* the outcome of CNL(item).decrypt() for every payload of the input domain
CnlOutcome ==
    [c \in {ItemOfKind(k).cnl : k \in 1..NumKinds} |->
        RunCNL([hoster |-> PyMissing, cnl |-> c])]

LogRecord(level, kind, i, name) ==
    [level |-> level, kind |-> kind, idx |-> i, hoster |-> name]

\* lines 103-115: choose the items to process
DcFilter ==
    /\ dc_pc = "start"
    /\ IF Truthy(mirror)
       THEN LET m == MatchingFrom(content_items, mirror.s, 1) IN
            IF ~m.ok
            THEN /\ dc_pc' = "raised"
                 /\ dc_err' = m.err
                 /\ UNCHANGED <<filtered, log>>
            ELSE /\ dc_pc' = "loop"
                 /\ dc_err' = ""
                 /\ filtered' = OrAll(m.val, content_items)
                 /\ log' = IF m.val = <<>>
                           THEN <<LogRecord("info", "fallback", 0 - 1, mirror)>>
                           ELSE <<>>
       ELSE /\ dc_pc' = "loop"
            /\ dc_err' = ""
            /\ filtered' = AllPositions(content_items)
            /\ log' = <<>>
    /\ UNCHANGED <<content_items, mirror, idx, decrypted_links, attempted>>
    /\ UNCHANGED <<cnl_vars, px_vars, cap_vars, ss_vars>>

CurrentItem == content_items[filtered[idx + 1]]

\* cnl_info = item.get("cnl", {})
CnlInfo(item) ==
    IF item.cnl.t = "missing" THEN Dict(PyMissing, PyMissing) ELSE item.cnl

InLoop == dc_pc = "loop" /\ idx < Len(filtered)

\* lines 119-121: cnl_info.get on a value that is no dict raises AttributeError,
\* outside the try block
DcItemRaises ==
    /\ InLoop
    /\ CnlInfo(CurrentItem).t # "dict"
    /\ dc_pc' = "raised"
    /\ dc_err' = "AttributeError"
    /\ UNCHANGED <<content_items, mirror, filtered, idx, decrypted_links, log, attempted>>
    /\ UNCHANGED <<cnl_vars, px_vars, cap_vars, ss_vars>>

\* lines 123-125: skip an item without jk or crypted
DcItemSkipped ==
    /\ InLoop
    /\ CnlInfo(CurrentItem).t = "dict"
    /\ MissingFields(DictGet(CnlInfo(CurrentItem).jk), DictGet(CnlInfo(CurrentItem).crypted))
    /\ log' = Append(log, LogRecord("info", "skip", idx, HosterName(CurrentItem)))
    /\ idx' = idx + 1
    /\ UNCHANGED <<content_items, mirror, dc_pc, dc_err, filtered, decrypted_links, attempted>>
    /\ UNCHANGED <<cnl_vars, px_vars, cap_vars, ss_vars>>

\* lines 127-134: decrypt the item inside try/except Exception
DcItemDecrypted ==
    /\ InLoop
    /\ CnlInfo(CurrentItem).t = "dict"
    /\ ~MissingFields(DictGet(CnlInfo(CurrentItem).jk), DictGet(CnlInfo(CurrentItem).crypted))
    /\ LET urls == CnlOutcome[CurrentItem.cnl] IN
        IF urls.ok
        THEN /\ decrypted_links' = Extend(decrypted_links, urls.val)
             /\ log' = Append(log, LogRecord("debug", "decrypted", idx, HosterName(CurrentItem)))
        ELSE /\ decrypted_links' = decrypted_links
             /\ log' = Append(log, LogRecord("info", "error", idx, HosterName(CurrentItem)))
    /\ attempted' = attempted \cup {idx}
    /\ idx' = idx + 1
    /\ UNCHANGED <<content_items, mirror, dc_pc, dc_err, filtered>>
    /\ UNCHANGED <<cnl_vars, px_vars, cap_vars, ss_vars>>

\* line 136
DcReturn ==
    /\ dc_pc = "loop"
    /\ idx = Len(filtered)
    /\ dc_pc' = "returned"
    /\ UNCHANGED <<content_items, mirror, dc_err, filtered, idx, decrypted_links, log, attempted>>
    /\ UNCHANGED <<cnl_vars, px_vars, cap_vars, ss_vars>>

----------------------------------------------------------------------------
(* One call of decrypt_content *)

DcStart ==
    /\ \E ks \in KindLists :
        content_items = [i \in 1..Len(ks) |-> ItemOfKind(ks[i])]
    /\ mirror \in Mirrors
    /\ dc_pc = "start"
    /\ dc_err = ""
    /\ filtered = <<>>
    /\ idx = 0
    /\ decrypted_links = <<>>
    /\ log = <<>>
    /\ attempted = {}

InitBatch == DcStart /\ CnlIdle /\ PxIdle /\ CapIdle /\ SsIdle

NextBatch == DcFilter \/ DcItemRaises \/ DcItemSkipped \/ DcItemDecrypted \/ DcReturn

SpecBatch == InitBatch /\ [][NextBatch]_vars

----------------------------------------------------------------------------
(* Properties of the batch decryptor *)

\* the item has the documented shape: hoster a str or absent, cnl a dict or absent
IsShaped(item) ==
    item.hoster.t \in {"missing", "str"} /\ item.cnl.t \in {"missing", "dict"}

AllShaped == \A i \in 1..Len(content_items) : IsShaped(content_items[i])

MirrorGiven == mirror.t = "str" /\ mirror.s # <<>>

HosterLabel(item) == IF item.hoster.t = "str" THEN item.hoster.s ELSE <<>>

IsSubstring(sub, s) ==
    \E i \in 0..Len(s) : \E j \in i..Len(s) : SubSeq(s, i + 1, j) = sub

\* the positions of the items whose hoster label contains the mirror, ascending
MatchPositions ==
    LET Matches(i) == IsSubstring(mirror.s, HosterLabel(content_items[i]))
    IN SelectSeq([i \in 1..Len(content_items) |-> i], Matches)

EveryPosition == [i \in 1..Len(content_items) |-> i]

AbsentOrEmpty(v) == v.t \in {"missing", "none"} \/ v = PyStr(<<>>)

LacksPayload(item) ==
    \/ item.cnl.t = "missing"
    \/ item.cnl.t = "dict" /\ (AbsentOrEmpty(item.cnl.jk) \/ AbsentOrEmpty(item.cnl.crypted))

\* what an item holds: the URL list its payload was encrypted from
ExpectedUrls(item) ==
    IF item.cnl = PayloadA THEN UrlsA
    ELSE IF item.cnl = PayloadB THEN UrlsB
    ELSE <<>>

ExpectedLinks(positions) ==
    Flatten([k \in 1..Len(positions) |-> ExpectedUrls(content_items[positions[k]])])

IsItemRecord(r) == r.kind \in {"skip", "error", "decrypted"}

ItemLog == SelectSeq(log, IsItemRecord)

\* the items the loop has gone through, by position in content_items
Processed == [k \in 1..Len(ItemLog) |-> filtered[ItemLog[k].idx + 1]]

RecordsOf(k) == {n \in 1..Len(log) : IsItemRecord(log[n]) /\ log[n].idx = k}

Fallbacks == {n \in 1..Len(log) : log[n].kind = "fallback"}

LabelOf(item) ==
    IF item.hoster.t = "missing"
    THEN PyStr(<<60, 117, 110, 107, 110, 111, 119, 110, 62>>)
    ELSE item.hoster

ItemAt(k) == content_items[filtered[k + 1]]

\* C4: no call of decrypt_content raises, whatever single item is malformed.
C4_NeverRaises == dc_pc # "raised"

\* C5: the result is the concatenation, in processed order, of the URL lists of
\* the processed items that decrypt; an item whose decryption fails adds no
\* URL and exactly one info record naming its hoster, and the loop goes on to
\* the end of the list.
C5_Concatenation ==
    dc_pc \in {"loop", "returned"} =>
        /\ decrypted_links = ExpectedLinks(SubSeq(filtered, 1, idx))
        /\ Processed = SubSeq(filtered, 1, idx)
        /\ \A k \in 0..(idx - 1) :
              (k \in attempted /\ ExpectedUrls(ItemAt(k)) = <<>>) =>
                  /\ Cardinality(RecordsOf(k)) = 1
                  /\ \A n \in RecordsOf(k) :
                        log[n] = [level |-> "info", kind |-> "error", idx |-> k,
                                  hoster |-> LabelOf(ItemAt(k))]
        /\ dc_pc = "returned" => idx = Len(filtered)

C5_Witness ==
    /\ dc_pc = "returned"
    /\ Len(content_items) = 3
    /\ content_items[1].cnl = PayloadA
    /\ content_items[2].cnl = PayloadCorrupt
    /\ content_items[3].cnl = PayloadB
    /\ filtered = <<1, 2, 3>>
    /\ decrypted_links = UrlsA \o UrlsB
    /\ \E n \in 1..Len(log) : log[n].kind = "error" /\ log[n].idx = 1

\* C6: with a mirror given that no hoster label contains, every item is
\* processed in the original order, the fallback is logged once, before any
\* item, and nothing is raised.
C6_Fallback ==
    (MirrorGiven /\ AllShaped /\ MatchPositions = <<>> /\ dc_pc # "start") =>
        /\ dc_pc # "raised"
        /\ filtered = EveryPosition
        /\ Fallbacks = {1}
        /\ log[1] = [level |-> "info", kind |-> "fallback", idx |-> 0 - 1, hoster |-> mirror]
        /\ dc_pc = "returned" =>
              /\ Processed = EveryPosition
              /\ decrypted_links = ExpectedLinks(EveryPosition)

C6_Witness ==
    /\ MirrorGiven
    /\ Len(content_items) = 2
    /\ content_items[1] = [hoster |-> HosterLowerX, cnl |-> PayloadA]
    /\ content_items[2] = [hoster |-> PyMissing, cnl |-> PayloadB]
    /\ dc_pc = "returned"
    /\ Processed = <<1, 2>>
    /\ Fallbacks = {1}
    /\ decrypted_links = UrlsA \o UrlsB

\* C7: with a mirror given that some hoster label contains (as a
\* case-sensitive substring), exactly the matching items are processed, in
\* the original order, and the result holds their URLs only; with no mirror
\* every item is processed.
C7_Filter ==
    (AllShaped /\ dc_pc # "start") =>
        /\ dc_pc # "raised"
        /\ (MirrorGiven /\ MatchPositions # <<>>) =>
              /\ filtered = MatchPositions
              /\ Fallbacks = {}
              /\ dc_pc = "returned" =>
                    /\ Processed = MatchPositions
                    /\ decrypted_links = ExpectedLinks(MatchPositions)
        /\ ~MirrorGiven =>
              /\ filtered = EveryPosition
              /\ Fallbacks = {}
              /\ dc_pc = "returned" =>
                    /\ Processed = EveryPosition
                    /\ decrypted_links = ExpectedLinks(EveryPosition)

C7_Witness ==
    /\ MirrorGiven
    /\ Len(content_items) = 3
    /\ content_items[1] = [hoster |-> HosterLowerX, cnl |-> PayloadA]
    /\ content_items[2] = [hoster |-> HosterXy, cnl |-> PayloadB]
    /\ content_items[3] = [hoster |-> PyMissing, cnl |-> PayloadA]
    /\ dc_pc = "returned"
    /\ Processed = <<2>>
    /\ decrypted_links = UrlsB

\* C8: an item without cnl, or whose cnl has no jk or no crypted, is skipped:
\* one info record names it, CNL is not constructed for it, it adds no URL,
\* and the loop goes on through every later item.
C8_Skip ==
    /\ \A k \in 0..(idx - 1) :
          (dc_pc \in {"loop", "returned", "raised"} /\ LacksPayload(ItemAt(k))) =>
              /\ k \notin attempted
              /\ Cardinality(RecordsOf(k)) = 1
              /\ \A n \in RecordsOf(k) :
                    log[n] = [level |-> "info", kind |-> "skip", idx |-> k,
                              hoster |-> LabelOf(ItemAt(k))]
    /\ dc_pc \in {"loop", "returned"} =>
          decrypted_links = ExpectedLinks(SubSeq(filtered, 1, idx))
    /\ (AllShaped /\ dc_pc # "start") =>
          /\ dc_pc # "raised"
          /\ dc_pc = "returned" => Processed = filtered

C8_Witness ==
    /\ dc_pc = "returned"
    /\ Len(content_items) = 3
    /\ content_items[1].cnl = PayloadNoJk
    /\ content_items[2].cnl = NotDict("missing")
    /\ content_items[3].cnl = PayloadB
    /\ filtered = <<1, 2, 3>>
    /\ Processed = <<1, 2, 3>>
    /\ attempted = {2}
    /\ log[1].kind = "skip" /\ log[2].kind = "skip"
    /\ decrypted_links = UrlsB

----------------------------------------------------------------------------
(* calculate_pixel_based_difference(img1, img2) *)

Min(a, b) == IF a < b THEN a ELSE b

RECURSIVE Gcd(_, _)
Gcd(a, b) == IF b = 0 THEN a ELSE Gcd(b, a % b)

\* a / b on two ints
TrueDiv(a, b) ==
    LET g == Gcd(a, b) IN [set |-> TRUE, num |-> a \div g, den |-> b \div g]

PixelAt(img, x, y) == img.px[y * img.size[1] + x + 1]

ChopsSubtract(a, b) ==
    LET w == Min(a.size[1], b.size[1])
        h == Min(a.size[2], b.size[2])
    IN Image(w, h,
             [n \in 1..(w * h) |->
                 LET x == (n - 1) % w
                     y == (n - 1) \div w
                 IN [c \in 1..3 |->
                        IF PixelAt(a, x, y)[c] > PixelAt(b, x, y)[c]
                        THEN PixelAt(a, x, y)[c] - PixelAt(b, x, y)[c]
                        ELSE 0]])

\* ImageChops.difference(a, b): abs(a - b) per channel, over the area both cover
ChopsDifference(a, b) ==
    LET w == Min(a.size[1], b.size[1])
        h == Min(a.size[2], b.size[2])
    IN Image(w, h,
             [n \in 1..(w * h) |->
                 LET x == (n - 1) % w
                     y == (n - 1) \div w
                 IN [c \in 1..3 |->
                        IF PixelAt(a, x, y)[c] >= PixelAt(b, x, y)[c]
                        THEN PixelAt(a, x, y)[c] - PixelAt(b, x, y)[c]
                        ELSE PixelAt(b, x, y)[c] - PixelAt(a, x, y)[c]]])

\* diff.histogram()[k]: [R0, ..., R255, G0, ..., G255, B0, ..., B255]
Histogram(img, k) ==
    Cardinality({n \in 1..Len(img.px) : img.px[n][(k \div 256) + 1] = k % 256})

ZeroElementsOffByOne(diff) ==
    Histogram(diff, 0) + Histogram(diff, 255) + Histogram(diff, 512)

\* zero_R + zero_G + zero_B
ZeroElements(diff) ==
    Histogram(diff, 0) + Histogram(diff, 256) + Histogram(diff, 512)

calculate_pixel_based_difference(a, b) ==
    LET diff == ChopsDifference(a, b)
        total_elements == diff.size[1] * diff.size[2] * 3
        non_zero == total_elements - ZeroElements(diff)
    IN TrueDiv(non_zero * 100, total_elements)

\* channel values of the pixels of the input images
PixelValues == {<<0, 0, 0>>, <<255, 255, 255>>, <<255, 0, 0>>, <<0, 0, 1>>}

Sizes == {sz \in (1..MaxPixels) \X (1..MaxPixels) : sz[1] * sz[2] <= MaxPixels}

Images ==
    UNION {{Image(sz[1], sz[2], px) : px \in [1..(sz[1] * sz[2]) -> PixelValues]} :
              sz \in Sizes}

PxStart ==
    /\ img1 \in Images
    /\ img2 \in Images
    /\ diff12 = NoValue
    /\ diff21 = NoValue
    /\ diff11 = NoValue

Diff12 ==
    /\ img1 # NoImage
    /\ ~diff12.set
    /\ diff12' = calculate_pixel_based_difference(img1, img2)
    /\ UNCHANGED <<img1, img2, diff21, diff11>>
    /\ UNCHANGED <<cnl_vars, dc_vars, cap_vars, ss_vars>>

Diff21 ==
    /\ img1 # NoImage
    /\ ~diff21.set
    /\ diff21' = calculate_pixel_based_difference(img2, img1)
    /\ UNCHANGED <<img1, img2, diff12, diff11>>
    /\ UNCHANGED <<cnl_vars, dc_vars, cap_vars, ss_vars>>

Diff11 ==
    /\ img1 # NoImage
    /\ ~diff11.set
    /\ diff11' = calculate_pixel_based_difference(img1, img1)
    /\ UNCHANGED <<img1, img2, diff12, diff21>>
    /\ UNCHANGED <<cnl_vars, dc_vars, cap_vars, ss_vars>>

InitDiff == PxStart /\ CnlIdle /\ DcIdle /\ CapIdle /\ SsIdle

NextDiff == Diff12 \/ Diff21 \/ Diff11

SpecDiff == InitDiff /\ [][NextDiff]_vars

----------------------------------------------------------------------------
(* Properties of the pixel difference *)

\* the channel samples in which two images of one size differ
DifferingSamples(a, b) ==
    {nc \in (1..Len(a.px)) \X (1..3) : a.px[nc[1]][nc[2]] # b.px[nc[1]][nc[2]]}

\* the quotient is the given share, in percent
IsPercentOf(v, part, whole) == v.set /\ v.num * whole = 100 * part * v.den /\ v.den > 0

\* C9: the difference of a normalized image to itself is 0.
C9_SelfDifferenceZero == diff11.set => (diff11.num = 0 /\ diff11.den > 0)

C9_Witness ==
    /\ diff11.set
    /\ diff11.num = 0
    /\ Len(img1.px) = 2
    /\ img1.px[1] # img1.px[2]
    /\ img1.px[1] = <<255, 255, 255>>

\* C10: for two normalized images of one size the difference is the same in
\* both orders, and it is the share of differing channel samples, a value
\* fixed by the two images.
C10_Symmetric ==
    (img1.size = img2.size /\ diff12.set /\ diff21.set) =>
        /\ diff12 = diff21
        /\ IsPercentOf(diff12, Cardinality(DifferingSamples(img1, img2)), 3 * Len(img1.px))
        /\ IsPercentOf(diff21, Cardinality(DifferingSamples(img2, img1)), 3 * Len(img2.px))

C10_Witness ==
    /\ img1.size = <<2, 1>> /\ img2.size = <<2, 1>>
    /\ img1.px = <<<<0, 0, 0>>, <<255, 0, 0>>>>
    /\ img2.px = <<<<255, 255, 255>>, <<255, 0, 0>>>>
    /\ diff12.set /\ diff21.set
    /\ diff12 = [set |-> TRUE, num |-> 50, den |-> 1]
    /\ diff21 = diff12

----------------------------------------------------------------------------
(* 64-bit floats.  Every float solve_captcha computes is 0 or lies in       *)
(* [8, 512): a percentage (non_zero * 100) / total_elements of images of at *)
(* most four pixels, or a sum of up to five of them.  Such a double is a    *)
(* multiple of 2^-49, so it is held exactly as the integer hi * 2^29 + lo   *)
(* in units of 2^-50, and rounding is to 53 significant bits, ties to even. *)

\* bits of the significand of a double
Precision == 53

Limb == 2^29

RECURSIVE BitLength(_)
BitLength(n) == IF n = 0 THEN 0 ELSE 1 + BitLength(n \div 2)

\* the double nearest to hi * 2^29 + lo (plus a rest below the last bit if
\* sticky), ties to even
RoundToDouble(hi, lo, sticky) ==
    LET bits == IF hi > 0 THEN 29 + BitLength(hi) ELSE BitLength(lo)
        s == bits - Precision
    IN IF s <= 0 THEN Float(hi, lo)
       ELSE LET unit == 2^s
                dropped == lo % unit
                kept == lo - dropped
                odd == (lo \div unit) % 2 = 1
                up == \/ 2 * dropped > unit
                      \/ 2 * dropped = unit /\ (sticky \/ odd)
                lo2 == IF up THEN kept + unit ELSE kept
            IN IF lo2 = Limb THEN Float(hi + 1, 0) ELSE Float(hi, lo2)

\* a + b on two floats
FloatAdd(a, b) ==
    LET lo == a.lo + b.lo
    IN RoundToDouble(a.hi + b.hi + lo \div Limb, lo % Limb, FALSE)

\* the float n / d of two ints, n >= 0 and 0 < d <= 16: long division
\* to 50 binary places, then rounding
FloatTrueDiv(n, d) ==
    LET x1 == (n % d) * 2^21
        x2 == (x1 % d) * 2^15
        x3 == (x2 % d) * 2^14
    IN RoundToDouble((n \div d) * 2^21 + x1 \div d,
                     (x2 \div d) * 2^14 + x3 \div d,
                     x3 % d # 0)

\* the float a quotient of calculate_pixel_based_difference is
FloatOf(q) == FloatTrueDiv(q.num, q.den)

\* a < b on two floats
FloatLess(a, b) == a.hi < b.hi \/ (a.hi = b.hi /\ a.lo < b.lo)

\* int(f / n) for a float f >= 0 and an int n in 1..8: the quotient of a
\* double by so small an int never rounds up to a whole number, so its
\* integer part is that of the exact quotient
IntOfQuotient(f, n) == (f.hi \div 2^21) \div n

----------------------------------------------------------------------------
(* The image bytes a gateway serves, as Image.open decodes them: the mode,  *)
(* whether info holds "transparency", the size, and per pixel the colour    *)
(* <<r, g, b>> it stands for followed by its alpha sample.                  *)

RawImage(mode, transparency, w, h, px) ==
    [t |-> "image", mode |-> mode, transparency |-> transparency,
     size |-> <<w, h>>, px |-> px]

\* r_img.content that is b""
EmptyBody ==
    [t |-> "empty", mode |-> "", transparency |-> FALSE, size |-> <<0, 0>>, px |-> <<>>]

\* r_img.content that no image decoder accepts
GarbageBody ==
    [t |-> "garbage", mode |-> "", transparency |-> FALSE, size |-> <<0, 0>>, px |-> <<>>]

\* Image.open(BytesIO(raw_bytes))
ImageOpen(raw_bytes) ==
    IF raw_bytes.t = "image" THEN Ok(raw_bytes) ELSE Raise("UnidentifiedImageError")

\* img.convert("RGBA") of a palette image with a transparency index
ConvertRgba(img) == [img EXCEPT !.mode = "RGBA"]

\* one sample of background.paste(img, mask=alpha): mask 255 takes the
\* pasted sample, mask 0 keeps the background, between them the blend
\* rounded to the nearest of 0..255
Blend(bg, in, mask) ==
    LET tmp == bg * (255 - mask) + in * mask + 128
    IN ((tmp \div 256) + tmp) \div 256

\* Image.new("RGB", img.size, (255, 255, 255)) with img pasted through its alpha
CompositeOverWhite(img) ==
    Image(img.size[1], img.size[2],
          [n \in 1..Len(img.px) |->
              [c \in 1..3 |-> Blend(255, img.px[n][c], img.px[n][4])]])

\* img.convert("RGB")
ConvertRgb(img) ==
    Image(img.size[1], img.size[2],
          [n \in 1..Len(img.px) |-> [c \in 1..3 |-> img.px[n][c]]])

\* the body of the loop over images, after Image.open
NormalizeImage(opened) ==
    LET img == IF opened.mode = "P" /\ opened.transparency
               THEN ConvertRgba(opened) ELSE opened
    IN IF img.mode = "RGBA" THEN CompositeOverWhite(img) ELSE ConvertRgb(img)

\* pil_images after the loop over images, or the exception Image.open raised
RECURSIVE PilImagesFrom(_, _, _)
PilImagesFrom(imgs, k, acc) ==
    IF k > Len(imgs) THEN Ok(acc)
    ELSE LET opened == ImageOpen(imgs[k][2]) IN
         IF ~opened.ok THEN [opened EXCEPT !.val = acc]
         ELSE PilImagesFrom(imgs, k + 1,
                            Append(acc, <<imgs[k][1], NormalizeImage(opened.val)>>))

PilImages(imgs) == PilImagesFrom(imgs, 1, <<>>)

----------------------------------------------------------------------------
(* solve_captcha: difference totals and the choice of the candidate *)

\* `if idx_i == idx_j: continue`
SkipSelf(i, j) == i = j

\* tot after the inner loop has passed the first j candidates
RECURSIVE TotFrom(_, _, _, _)
TotFrom(pil, i, j, tot) ==
    IF j > Len(pil) THEN tot
    ELSE IF SkipSelf(i, j) THEN TotFrom(pil, i, j + 1, tot)
    ELSE TotFrom(pil, i, j + 1,
                 FloatAdd(tot, FloatOf(calculate_pixel_based_difference(pil[i][2],
                                                                        pil[j][2]))))

DiffsPilByIndex(pil) == [i \in 1..Len(pil) |-> <<i - 1, TotFrom(pil, i, 1, Float(0, 0))>>]

\* diffs_pil after the loops: (cid_i, tot) per candidate
DiffsPil(pil) == [i \in 1..Len(pil) |-> <<pil[i][1], TotFrom(pil, i, 1, Float(0, 0))>>]

FirstCandidate(diffs) == 1

\* the position max(diffs, key=lambda x: x[1]) takes its result from:
\* a later element replaces the best one only if its key is greater
RECURSIVE MaxFrom(_, _, _)
MaxFrom(diffs, k, best) ==
    IF k > Len(diffs) THEN best
    ELSE IF FloatLess(diffs[best][2], diffs[k][2]) THEN MaxFrom(diffs, k + 1, k)
    ELSE MaxFrom(diffs, k + 1, best)

MaxByScore(diffs) == MaxFrom(diffs, 2, 1)

----------------------------------------------------------------------------
(* solve_captcha: the calls of the two fetch capabilities *)

\* what the challenge request may be answered: result["json"] is a list of
\* ids, another JSON value, reading it raises ValueError, or the capability
\* itself raises
ChallengeAnswer(t, ids) == [t |-> t, ids |-> ids]

\* what an image fetch may be answered: a response, or the capability raises
ImageAnswer(t, status_code, content) ==
    [t |-> t, status_code |-> status_code, content |-> content]

\* what the submission may be answered: result["text"], or the capability raises
SubmitAnswer(t, text) == [t |-> t, text |-> text]

\* one call of fetch_via_flaresolverr or fetch_via_requests_session
Call(fn, method, cID, rT, pC, hash, timeout, answer) ==
    [fn |-> fn, method |-> method, cID |-> cID, rT |-> rT, pC |-> pC, hash |-> hash,
     timeout |-> timeout, answer |-> answer]

\* an argument the call does not have is NoId
ChallengeCall(answer) == Call("flaresolverr", "POST", 0, 1, NoId, NoId, 30, answer)

ImageCall(c, answer) == Call("requests_session", "GET", 0, NoId, NoId, c, 30, answer)

SubmitFirst(pC, answer) == Call("flaresolverr", "POST", 0, 2, 1, NoId, 60, answer)

SubmitCall(pC, answer) == Call("flaresolverr", "POST", 0, 2, pC, NoId, 60, answer)

AcceptOne(raw) == raw.t # "list" \/ Len(raw.ids) < 1

\* `not isinstance(raw_ids, list) or len(raw_ids) < 2`
BadIds(raw) == raw.t # "list" \/ Len(raw.ids) < 2

AcceptEmptyBody(r_img) == FALSE

\* `not r_img.content`
NoContent(r_img) == r_img.content.t = "empty"

CompareEarly(fetched, total) == "normalize"

\* where the loop over raw_ids goes after an iteration that appended an image
AfterFetch(fetched, total) == IF fetched = total THEN "normalize" ELSE "fetch"

Other(p) == 3 - p

\* the call whose locals a statement of caller p reads
Own(p) == p

\* result = fetch_via_flaresolverr(... {"cID": 0, "rT": 1} ...) up to the check
\* of raw_ids
RequestChallenge(p) ==
    /\ cap_pc[p] = "request"
    /\ \E answer \in gateway[p].challenges :
        /\ cap_calls' = [cap_calls EXCEPT ![p] = Append(@, ChallengeCall(answer))]
        /\ IF answer.t = "raise"
           THEN /\ cap_pc' = [cap_pc EXCEPT ![p] = "failed"]
                /\ cap_err' = [cap_err EXCEPT ![p] = "FetchError"]
                /\ UNCHANGED raw_ids
           ELSE IF answer.t = "valueerror" \/ BadIds(answer)
           THEN /\ cap_pc' = [cap_pc EXCEPT ![p] = "failed"]
                /\ cap_err' = [cap_err EXCEPT ![p] = "RuntimeError"]
                /\ UNCHANGED raw_ids
           ELSE /\ cap_pc' = [cap_pc EXCEPT ![p] = "fetch"]
                /\ raw_ids' = [raw_ids EXCEPT ![p] = answer.ids]
                /\ UNCHANGED cap_err
    /\ UNCHANGED <<gateway, images, pil_images, diffs_pil, identified_captcha_image,
                   cum_pct_pil, cap_log, cap_result>>
    /\ UNCHANGED <<cnl_vars, dc_vars, px_vars, ss_vars>>

\* one iteration of `for c in raw_ids`
FetchImage(p) ==
    /\ cap_pc[p] = "fetch"
    /\ Len(images[Own(p)]) < Len(raw_ids[Own(p)])
    /\ LET c == raw_ids[Own(p)][Len(images[Own(p)]) + 1] IN
       \E r_img \in gateway[p].bodies :
        /\ cap_calls' = [cap_calls EXCEPT ![p] = Append(@, ImageCall(c, r_img))]
        /\ IF r_img.t = "raise"
           THEN /\ cap_pc' = [cap_pc EXCEPT ![p] = "failed"]
                /\ cap_err' = [cap_err EXCEPT ![p] = "FetchError"]
                /\ UNCHANGED images
           ELSE IF r_img.status_code # 200 \/ NoContent(r_img)
           THEN /\ cap_pc' = [cap_pc EXCEPT ![p] = "failed"]
                /\ cap_err' = [cap_err EXCEPT ![p] = "RuntimeError"]
                /\ UNCHANGED images
           ELSE /\ images' = [images EXCEPT ![p] = Append(images[Own(p)], <<c, r_img.content>>)]
                /\ cap_pc' = [cap_pc EXCEPT ![p] =
                                 AfterFetch(Len(images[Own(p)]) + 1, Len(raw_ids[Own(p)]))]
                /\ UNCHANGED cap_err
    /\ UNCHANGED <<gateway, raw_ids, pil_images, diffs_pil, identified_captcha_image,
                   cum_pct_pil, cap_log, cap_result>>
    /\ UNCHANGED <<cnl_vars, dc_vars, px_vars, ss_vars>>

\* the loop `for cid, raw_bytes in images`
Normalize(p) ==
    /\ cap_pc[p] = "normalize"
    /\ LET r == PilImages(images[Own(p)]) IN
        /\ pil_images' = [pil_images EXCEPT ![p] = r.val]
        /\ cap_pc' = [cap_pc EXCEPT ![p] = IF r.ok THEN "diffs" ELSE "failed"]
        /\ cap_err' = [cap_err EXCEPT ![p] = r.err]
    /\ UNCHANGED <<gateway, raw_ids, images, diffs_pil, identified_captcha_image,
                   cum_pct_pil, cap_calls, cap_log, cap_result>>
    /\ UNCHANGED <<cnl_vars, dc_vars, px_vars, ss_vars>>

\* the loops that fill diffs_pil
ComputeDiffs(p) ==
    /\ cap_pc[p] = "diffs"
    /\ diffs_pil' = [diffs_pil EXCEPT ![p] = DiffsPil(pil_images[Own(p)])]
    /\ cap_pc' = [cap_pc EXCEPT ![p] = "select"]
    /\ UNCHANGED <<gateway, raw_ids, images, pil_images, identified_captcha_image,
                   cum_pct_pil, cap_calls, cap_log, cap_result, cap_err>>
    /\ UNCHANGED <<cnl_vars, dc_vars, px_vars, ss_vars>>

\* identified_captcha_image, cum_pct_pil = max(...) and the info() line
Select(p) ==
    /\ cap_pc[p] = "select"
    /\ LET chosen == diffs_pil[Own(p)][MaxByScore(diffs_pil[Own(p)])] IN
        /\ identified_captcha_image' = [identified_captcha_image EXCEPT ![p] = chosen[1]]
        /\ cum_pct_pil' = [cum_pct_pil EXCEPT ![p] = chosen[2]]
        /\ cap_log' = [cap_log EXCEPT ![p] =
                          [id |-> chosen[1],
                           pct |-> IntOfQuotient(chosen[2], Len(images[Own(p)]))]]
    /\ cap_pc' = [cap_pc EXCEPT ![p] = "submit"]
    /\ UNCHANGED <<gateway, raw_ids, images, pil_images, diffs_pil, cap_calls,
                   cap_result, cap_err>>
    /\ UNCHANGED <<cnl_vars, dc_vars, px_vars, ss_vars>>

\* result = fetch_via_flaresolverr(... {"cID": 0, "pC": ..., "rT": 2} ...) and
\* the return
Submit(p) ==
    /\ cap_pc[p] = "submit"
    /\ \E answer \in gateway[p].texts :
        /\ cap_calls' = [cap_calls EXCEPT ![p] =
                            Append(@, SubmitCall(identified_captcha_image[Own(p)], answer))]
        /\ IF answer.t = "raise"
           THEN /\ cap_pc' = [cap_pc EXCEPT ![p] = "failed"]
                /\ cap_err' = [cap_err EXCEPT ![p] = "FetchError"]
                /\ UNCHANGED cap_result
           ELSE /\ cap_pc' = [cap_pc EXCEPT ![p] = "done"]
                /\ cap_result' = [cap_result EXCEPT ![p] =
                                     Resolution(answer.text,
                                                identified_captcha_image[Own(p)])]
                /\ UNCHANGED cap_err
    /\ UNCHANGED <<gateway, raw_ids, images, pil_images, diffs_pil,
                   identified_captcha_image, cum_pct_pil, cap_log>>
    /\ UNCHANGED <<cnl_vars, dc_vars, px_vars, ss_vars>>

----------------------------------------------------------------------------
(* solve_captcha: the gateways and the specification of one call *)

\* number of candidate ids of a challenge
MaxIds == 4

\* [1, ..., n]
Ascending(n) == [i \in 1..n |-> i]

IdLists == {Ascending(n) : n \in 0..MaxIds} \cup {<<2, 1>>, <<2, 2, 1>>}

Challenges ==
    {ChallengeAnswer("list", ids) : ids \in IdLists}
        \cup {ChallengeAnswer(t, <<>>) : t \in {"dict", "none", "valueerror", "raise"}}

Opaque == 255

Rgb1(r, g, b) == RawImage("RGB", FALSE, 1, 1, <<<<r, g, b, Opaque>>>>)

ImgA == Rgb1(0, 0, 0)
ImgB == Rgb1(0, 0, 1)
ImgC == Rgb1(0, 1, 0)
ImgD == Rgb1(1, 1, 0)

\* one transparent pixel
ImgAlpha == RawImage("RGBA", FALSE, 1, 1, <<<<0, 0, 0, 0>>>>)

\* one pixel of a palette entry that is the transparency index
ImgPalette == RawImage("P", TRUE, 1, 1, <<<<0, 0, 1, 0>>>>)

\* two pixels side by side
ImgWide == RawImage("RGB", FALSE, 2, 1, <<<<0, 0, 0, Opaque>>, <<0, 0, 1, Opaque>>>>)

Bodies ==
    {ImageAnswer("response", 200, c) :
        c \in {ImgA, ImgB, ImgC, ImgD, ImgAlpha, ImgPalette, ImgWide, GarbageBody, EmptyBody}}
        \cup {ImageAnswer("response", 404, GarbageBody),
              ImageAnswer("response", 204, EmptyBody),
              ImageAnswer("raise", 0, EmptyBody)}

\* "1", "0" and ""
Texts ==
    {SubmitAnswer("text", <<49>>), SubmitAnswer("text", <<48>>), SubmitAnswer("text", <<>>),
     SubmitAnswer("raise", <<>>)}

AnyGateway == [challenges |-> Challenges, bodies |-> Bodies, texts |-> Texts]

\* the callers in `running` are about to execute the first statement
CapStart(running) ==
    /\ cap_pc = [p \in Callers |-> IF p \in running THEN "request" ELSE "idle"]
    /\ raw_ids = [p \in Callers |-> <<>>]
    /\ images = [p \in Callers |-> <<>>]
    /\ pil_images = [p \in Callers |-> <<>>]
    /\ diffs_pil = [p \in Callers |-> <<>>]
    /\ identified_captcha_image = [p \in Callers |-> NoId]
    /\ cum_pct_pil = [p \in Callers |-> Float(0, 0)]
    /\ cap_calls = [p \in Callers |-> <<>>]
    /\ cap_log = [p \in Callers |-> NoCaptchaLog]
    /\ cap_result = [p \in Callers |-> NoResolution]
    /\ cap_err = [p \in Callers |-> ""]

InitCaptcha ==
    /\ gateway = [p \in Callers |-> IF p = 1 THEN AnyGateway ELSE NoGateway]
    /\ CapStart({1})
    /\ CnlIdle /\ DcIdle /\ PxIdle /\ SsIdle

NextCaptcha ==
    \E p \in Callers :
        \/ RequestChallenge(p)
        \/ FetchImage(p)
        \/ Normalize(p)
        \/ ComputeDiffs(p)
        \/ Select(p)
        \/ Submit(p)

SpecCaptcha == InitCaptcha /\ [][NextCaptcha]_vars

----------------------------------------------------------------------------
(* Properties of solve_captcha *)

\* the normalized image of the candidate at a position
PilAt(p, i) == pil_images[p][i][2]

\* the aggregate score of the candidate at a position
ScoreAt(p, i) == diffs_pil[p][i][2]

Candidates(p) == 1..Len(raw_ids[p])

\* the selection has been made
Selected(p) == cap_pc[p] \in {"submit", "done"} \/ identified_captcha_image[p] # NoId

FirstOf(positions) == CHOOSE k \in positions : \A j \in positions : k <= j

\* six times the sum of the differences of a candidate to the others
RECURSIVE SixthsFrom(_, _, _)
SixthsFrom(p, i, j) ==
    IF j > Len(pil_images[p]) THEN 0
    ELSE (IF j = i THEN 0
          ELSE LET q == calculate_pixel_based_difference(PilAt(p, i), PilAt(p, j))
               IN q.num * (6 \div q.den))
         + SixthsFrom(p, i, j + 1)

AggregateScore(p, i) == SixthsFrom(p, i, 1)

\* the candidates whose aggregate score is the maximum
Maximal(p) ==
    {k \in Candidates(p) :
        \A j \in Candidates(p) : AggregateScore(p, j) <= AggregateScore(p, k)}

AllIdentical(p) == \A i, j \in Candidates(p) : PilAt(p, i) = PilAt(p, j)

\* C11: the selected candidate is the first, in challenge order, whose
\* aggregate score (the sum of its differences to every other candidate) is
\* the maximum over all candidates; when all images are identical, every
\* score is 0 and the first candidate is selected.
C11_FirstMaximum ==
    \A p \in Callers :
        Selected(p) =>
            /\ identified_captcha_image[p] = raw_ids[p][FirstOf(Maximal(p))]
            /\ AllIdentical(p) =>
                  /\ \A i \in Candidates(p) : ScoreAt(p, i) = Float(0, 0)
                  /\ identified_captcha_image[p] = raw_ids[p][1]

\* all images but the one at position k are the same, and that one has
\* their size and differs from them in a channel sample
OutlierAt(p, k) ==
    /\ \A i, j \in Candidates(p) \ {k} : PilAt(p, i) = PilAt(p, j)
    /\ \A i \in Candidates(p) \ {k} :
        /\ PilAt(p, i).size = PilAt(p, k).size
        /\ DifferingSamples(PilAt(p, i), PilAt(p, k)) # {}

\* C12: of N >= 3 images that are pixel-identical except one, which differs
\* in at least one channel sample, the differing image's id is selected,
\* whatever its position.
C12_OutlierSelected ==
    \A p \in Callers :
        (Selected(p) /\ Len(raw_ids[p]) >= 3) =>
            \A k \in Candidates(p) :
                OutlierAt(p, k) => identified_captcha_image[p] = raw_ids[p][k]

C12_Witness ==
    /\ cap_pc[1] = "done"
    /\ raw_ids[1] = <<1, 2, 3, 4>>
    /\ OutlierAt(1, 3)
    /\ identified_captcha_image[1] = 3
    /\ cap_result[1].captcha_id = 3

\* the calls made so far that are submissions
Submissions(p) == SelectSeq(cap_calls[p], LAMBDA c : c.fn = "flaresolverr" /\ c.rT # 1)

\* the calls made so far that are image fetches
ImageFetches(p) == SelectSeq(cap_calls[p], LAMBDA c : c.fn = "requests_session")

\* C13: the submission carries cID = 0, rT = 2 and pC = the selected id, and
\* a successful resolution returns that same id; for the challenge [1, 2, 3]
\* with images 1 and 3 identical and image 2 different, pC is 2.
C13_Submission ==
    \A p \in Callers :
        /\ \A n \in 1..Len(Submissions(p)) :
            /\ Selected(p)
            /\ Submissions(p)[n].method = "POST"
            /\ Submissions(p)[n].cID = 0
            /\ Submissions(p)[n].rT = 2
            /\ Submissions(p)[n].pC = identified_captcha_image[p]
            /\ (raw_ids[p] = <<1, 2, 3>> /\ OutlierAt(p, 2)) => Submissions(p)[n].pC = 2
        /\ cap_pc[p] = "done" =>
            /\ Len(Submissions(p)) = 1
            /\ cap_result[p].captcha_id = Submissions(p)[1].pC
            /\ cap_result[p].captcha_id = identified_captcha_image[p]

C13_Witness ==
    /\ cap_pc[1] = "done"
    /\ raw_ids[1] = <<1, 2, 3>>
    /\ PilAt(1, 1) = PilAt(1, 3)
    /\ OutlierAt(1, 2)
    /\ Len(Submissions(1)) = 1
    /\ Submissions(1)[1].pC = 2
    /\ cap_result[1].captcha_id = 2

\* the answer to the challenge request, once it was made
ChallengeAnswered(p) == cap_calls[p][1].answer

\* the answer is not a list of at least 2 candidate ids
NotACandidateList(answer) ==
    \/ answer.t \in {"dict", "none", "valueerror"}
    \/ answer.t = "list" /\ Len(answer.ids) \in {0, 1}

\* C14: if the challenge response does not parse to a list of at least 2
\* candidate ids (not a list, empty, or one element), the resolution ends
\* FAILED with a protocol error, no image is fetched and no submission is
\* issued.
C14_BadChallengeFails ==
    \A p \in Callers :
        (cap_calls[p] # <<>> /\ NotACandidateList(ChallengeAnswered(p))) =>
            /\ cap_pc[p] = "failed"
            /\ cap_err[p] = "RuntimeError"
            /\ Len(cap_calls[p]) = 1
            /\ raw_ids[p] = <<>>
            /\ images[p] = <<>>
            /\ cap_result[p] = NoResolution

C14_Witness ==
    /\ cap_pc[1] = "failed"
    /\ cap_err[1] = "RuntimeError"
    /\ cap_calls[1] # <<>>
    /\ ChallengeAnswered(1) = ChallengeAnswer("list", <<1>>)
    /\ Len(cap_calls[1]) = 1

\* the image fetch was answered with a non-success status or an empty body
FailedFetch(c) ==
    /\ c.fn = "requests_session"
    /\ c.answer.t = "response"
    /\ c.answer.status_code \notin 200..299 \/ c.answer.content.t = "empty"

\* C15: if an image fetch returns a non-success status or an empty body, the
\* resolution ends FAILED at that point: no later image is fetched, no
\* comparison result is used, no submission is issued and no result is
\* returned.
C15_FetchFailureIsFatal ==
    \A p \in Callers :
        \A n \in 1..Len(cap_calls[p]) :
            FailedFetch(cap_calls[p][n]) =>
                /\ n = Len(cap_calls[p])
                /\ cap_pc[p] = "failed"
                /\ cap_err[p] = "RuntimeError"
                /\ Len(images[p]) = n - 2
                /\ pil_images[p] = <<>>
                /\ diffs_pil[p] = <<>>
                /\ identified_captcha_image[p] = NoId
                /\ Submissions(p) = <<>>
                /\ cap_result[p] = NoResolution

\* the second of three fetches fails after the first succeeded
C15_Witness ==
    /\ cap_pc[1] = "failed"
    /\ raw_ids[1] = <<1, 2, 3>>
    /\ Len(cap_calls[1]) = 3
    /\ cap_calls[1][2].answer.status_code = 200
    /\ cap_calls[1][3].answer.status_code = 404
    /\ FailedFetch(cap_calls[1][3])
    /\ Len(images[1]) = 1

Ended(p) == cap_pc[p] \in {"done", "failed"}

\* the calls made so far are: the challenge request, the image fetches of the
\* first candidates in candidate order, and then at most one submission
CallsInOrder(p) ==
    LET calls == cap_calls[p]
        fetched == Len(ImageFetches(p))
    IN /\ cap_pc[p] \notin {"idle", "request"} <=> Len(calls) >= 1
       /\ calls # <<>> => (calls[1].fn = "flaresolverr" /\ calls[1].rT = 1)
       /\ fetched <= Len(raw_ids[p])
       /\ \A n \in 1..fetched :
            /\ calls[n + 1].fn = "requests_session"
            /\ calls[n + 1].hash = raw_ids[p][n]
       /\ Len(calls) \in {0, 1 + fetched, 2 + fetched}
       /\ Len(calls) = 2 + fetched =>
            /\ calls[2 + fetched].fn = "flaresolverr"
            /\ calls[2 + fetched].rT = 2
            /\ fetched = Len(raw_ids[p])
            /\ Selected(p)
            /\ cap_pc[p] \in {"done", "failed"}

\* a difference is computed only from the images of all candidates
ComparedAfterFetching(p) ==
    (pil_images[p] # <<>> \/ diffs_pil[p] # <<>> \/ Selected(p)) =>
        /\ Len(ImageFetches(p)) = Len(raw_ids[p])
        /\ Len(images[p]) = Len(raw_ids[p])
        /\ \A n \in 1..Len(raw_ids[p]) :
            images[p][n] = <<raw_ids[p][n], cap_calls[p][n + 1].answer.content>>

\* a step of a call that has ended, or one that removes or alters a call made
CallsOnlyAppended(p) ==
    /\ Ended(p) => (cap_calls'[p] = cap_calls[p] /\ cap_pc'[p] = cap_pc[p])
    /\ Len(cap_calls'[p]) \in {Len(cap_calls[p]), Len(cap_calls[p]) + 1}
    /\ SubSeq(cap_calls'[p], 1, Len(cap_calls[p])) = cap_calls[p]

\* C16: in every run the external calls are, in this order and none
\* repeated: one challenge request, the image fetches one at a time in
\* candidate order (all completed before any difference is computed), then
\* at most one submission, issued after the selection; after DONE or FAILED
\* no further call is made.
C16_CallOrder ==
    /\ [](\A p \in Callers : CallsInOrder(p) /\ ComparedAfterFetching(p))
    /\ [][\A p \in Callers : CallsOnlyAppended(p)]_vars

C16_Witness ==
    /\ cap_pc[1] = "done"
    /\ raw_ids[1] = <<2, 1>>
    /\ Len(cap_calls[1]) = 4
    /\ cap_calls[1][2].hash = 2
    /\ cap_calls[1][3].hash = 1
    /\ cap_calls[1][4].rT = 2

\* the text the submission was answered with
SubmittedText(p) == Submissions(p)[1].answer.text

\* the fields of the result other than the id and the response text
FurtherFields(p) == DOMAIN cap_result[p] \ {"captcha_id", "response"}

\* C17 as stated: a resolution that reaches DONE yields a result holding the
\* selected id, the aggregate difference score of that candidate and the
\* submission's response text unchanged.
C17_ResolutionAsStated ==
    \A p \in Callers :
        cap_pc[p] = "done" =>
            /\ cap_result[p].captcha_id = identified_captcha_image[p]
            /\ cap_result[p].response = SubmittedText(p)
            /\ \E f \in FurtherFields(p) : cap_result[p][f] = cum_pct_pil[p]

\* C17: a resolution that reaches DONE yields a result holding exactly the
\* selected id and the submission's response text unchanged; whatever the
\* text says the outcome is DONE; the score of the selected candidate is
\* not in the result, only its share per candidate is logged as a whole
\* number.
C17_Resolution ==
    \A p \in Callers :
        /\ cap_pc[p] = "done" =>
            /\ cap_result[p].captcha_id = identified_captcha_image[p]
            /\ cap_result[p].response = SubmittedText(p)
            /\ FurtherFields(p) = {}
            /\ cap_log[p].id = identified_captcha_image[p]
            /\ cap_log[p].pct \in 0..100
            /\ cap_log[p].pct * Len(raw_ids[p]) * 6 <= AggregateScore(p, MaxByScore(diffs_pil[p]))
        /\ (Submissions(p) # <<>> /\ Submissions(p)[1].answer.t = "text") => cap_pc[p] = "done"
        /\ cap_pc[p] # "done" => cap_result[p] = NoResolution

\* done on the response text "0", with a score that is not 0
C17_Witness ==
    /\ cap_pc[1] = "done"
    /\ cap_result[1] = Resolution(<<48>>, 2)
    /\ raw_ids[1] = <<1, 2, 3>>
    /\ cum_pct_pil[1] # Float(0, 0)
    /\ cap_log[1].pct > 0

----------------------------------------------------------------------------
(* Interleaved invocations: two calls of solve_captcha, one call of          *)
(* decrypt_content and one CNL object of another decryption, each taking    *)
(* its steps in any order with the others.                                  *)

ItemA == [hoster |-> HosterXy, cnl |-> PayloadA]
ItemB == [hoster |-> HosterLowerX, cnl |-> PayloadB]
ItemNoCnl == [hoster |-> HosterXy, cnl |-> NotDict("missing")]
ItemNullCnl == [hoster |-> HosterXy, cnl |-> NotDict("none")]

\* the arguments of the interleaved call of decrypt_content
PairBatches ==
    {<<<<ItemA, ItemNoCnl, ItemB>>, PyStr(<<88>>)>>,
     <<<<ItemB, ItemNullCnl, ItemA>>, PyNone>>}

\* the gateways of the two interleaved callers
PairGateway(p) ==
    IF p = 1
    THEN [challenges |-> {ChallengeAnswer("list", <<1, 2>>), ChallengeAnswer("list", <<1>>)},
          bodies |-> {ImageAnswer("response", 200, ImgA), ImageAnswer("response", 200, ImgB),
                      ImageAnswer("response", 404, GarbageBody)},
          texts |-> {SubmitAnswer("text", <<49>>), SubmitAnswer("raise", <<>>)}]
    ELSE [challenges |-> {ChallengeAnswer("list", <<2, 1>>), ChallengeAnswer("none", <<>>)},
          bodies |-> {ImageAnswer("response", 200, ImgC), ImageAnswer("response", 200, ImgAlpha),
                      ImageAnswer("response", 200, GarbageBody)},
          texts |-> {SubmitAnswer("text", <<48>>)}]

InitPair ==
    /\ gateway = [p \in Callers |-> PairGateway(p)]
    /\ CapStart(Callers)
    /\ \E b \in PairBatches : content_items = b[1] /\ mirror = b[2]
    /\ dc_pc = "start"
    /\ dc_err = ""
    /\ filtered = <<>>
    /\ idx = 0
    /\ decrypted_links = <<>>
    /\ log = <<>>
    /\ attempted = {}
    /\ chosen_data = ItemB
    /\ ref = [kind |-> "raw", urls |-> <<>>, jk |-> <<>>, pad |-> 0]
    /\ cnl_pc = "new"
    /\ cnl_err = ""
    /\ fixed_key_hex = <<>>
    /\ aes_calls = 0
    /\ cnl_urls = <<>>
    /\ PxIdle /\ SsIdle

NextPair == NextCaptcha \/ NextBatch \/ NextCNL

SpecPair == InitPair /\ [][NextPair]_vars

\* the answers a caller was given, in the order it asked
Answers(p) == [n \in 1..Len(cap_calls[p]) |-> cap_calls[p][n].answer]

GoodImage(a) == a.t = "response" /\ a.status_code = 200 /\ a.content.t # "empty"

RunOf(pc, result, calls) == [pc |-> pc, result |-> result, calls |-> calls]

\* how a call of solve_captcha that runs alone ends on these answers, what it
\* returns and the calls it issues
Alone(answers) ==
    LET ids == answers[1].ids
        n == Len(ids)
        Fetches(m) == [k \in 1..m |-> ImageCall(ids[k], answers[k + 1])]
        fetches == Fetches(n)
        pil == PilImages([k \in 1..n |-> <<ids[k], answers[k + 1].content>>])
        diffs == DiffsPil(pil.val)
        chosen == diffs[MaxByScore(diffs)][1]
        first == <<ChallengeCall(answers[1])>>
    IN IF answers[1].t # "list" \/ n < 2
       THEN RunOf("failed", NoResolution, first)
       ELSE IF \E k \in 1..n : Len(answers) = k + 1 /\ ~GoodImage(answers[k + 1])
       THEN RunOf("failed", NoResolution, first \o Fetches(Len(answers) - 1))
       ELSE IF ~pil.ok
       THEN RunOf("failed", NoResolution, first \o fetches)
       ELSE IF answers[n + 2].t = "raise"
       THEN RunOf("failed", NoResolution,
                  first \o fetches \o <<SubmitCall(chosen, answers[n + 2])>>)
       ELSE RunOf("done", Resolution(answers[n + 2].text, chosen),
                  first \o fetches \o <<SubmitCall(chosen, answers[n + 2])>>)

\* the captcha call that has ended did what it does alone
CaptchaAsAlone(p) ==
    Ended(p) => RunOf(cap_pc[p], cap_result[p], cap_calls[p]) = Alone(Answers(p))

\* the positions decrypt_content processes when it runs alone
AlonePositions ==
    IF Truthy(mirror) /\ MatchPositions # <<>> THEN MatchPositions ELSE EveryPosition

\* the first of them whose cnl is neither a dict nor absent, or 0
FirstNullCnl ==
    LET bad == {k \in 1..Len(AlonePositions) :
                   content_items[AlonePositions[k]].cnl.t \notin {"dict", "missing"}}
    IN IF bad = {} THEN 0 ELSE CHOOSE k \in bad : \A j \in bad : k <= j

\* the batch that has ended did what it does alone
BatchAsAlone ==
    /\ dc_pc = "returned" =>
        /\ FirstNullCnl = 0
        /\ decrypted_links = ExpectedLinks(AlonePositions)
    /\ dc_pc = "raised" =>
        /\ FirstNullCnl > 0
        /\ decrypted_links = ExpectedLinks(SubSeq(AlonePositions, 1, FirstNullCnl - 1))

\* the CNL object that has decrypted returned the URLs of its own payload
CnlAsAlone ==
    /\ cnl_pc \in {"constructed", "returned"} => fixed_key_hex = SwapKey(chosen_data.cnl.jk.s)
    /\ cnl_pc = "returned" => cnl_urls = ExpectedUrls(chosen_data)

\* the variables of one call of solve_captcha
CallOf(p) ==
    <<gateway[p], cap_pc[p], raw_ids[p], images[p], pil_images[p], diffs_pil[p],
      identified_captcha_image[p], cum_pct_pil[p], cap_calls[p], cap_log[p],
      cap_result[p], cap_err[p]>>

\* a step writes the variables of one invocation only
WritesOwnOnly ==
    /\ \A p, q \in Callers : (p # q /\ CallOf(p)' # CallOf(p)) => CallOf(q)' = CallOf(q)
    /\ cap_vars' # cap_vars => (dc_vars' = dc_vars /\ cnl_vars' = cnl_vars)
    /\ dc_vars' # dc_vars => (cap_vars' = cap_vars /\ cnl_vars' = cnl_vars)
    /\ cnl_vars' # cnl_vars => (cap_vars' = cap_vars /\ dc_vars' = dc_vars)

----------------------------------------------------------------------------
(* Properties of the steps of CNL.decrypt *)

\* the buffer _aes_decrypt returned to decrypt()
RawPlain == aes_decrypt(CryptedBlob(chosen_data), fixed_key_hex)

NotPadding(b) == b # 0 /\ b # 8

\* the bytes of the buffer that are neither 0x00 nor 0x08, in their order
Kept == SelectSeq(RawPlain.val, NotPadding)

\* C19: decrypt removes every byte 0x00 and every byte 0x08 from the
\* decrypted buffer, wherever it is, removes no other byte and keeps the
\* order of the remaining bytes.
C19_PaddingRemoved ==
    cnl_pc \in {"returned", "decrypt_raised"} =>
        LET raw_plain == RawPlain
            kept == SelectSeq(raw_plain.val, NotPadding)
            text == Utf8Decode(kept)
        IN raw_plain.ok =>
            /\ StripPadding(raw_plain.val) = kept
            /\ cnl_pc = "returned" <=> text.ok
            /\ cnl_pc = "returned" => cnl_urls = UrlLines(text.val)

\* 0x00 between two other bytes, 0x08 as padding up to the end
C19_Witness ==
    /\ cnl_pc = "returned"
    /\ RawPlain.ok
    /\ SubSeq(RawPlain.val, 1, 4) = <<97, 0, 97, 8>>
    /\ RawPlain.val[Len(RawPlain.val)] = 8
    /\ Kept = <<97, 97>>
    /\ cnl_urls = <<<<97, 97>>>>

\* the text decrypt() splits
DecodedText == Utf8Decode(StripPadding(RawPlain.val)).val

\* the maximal runs of characters of a text that are not boundaries, in order
RECURSIVE RunsFrom(_, _, _, _)
RunsFrom(text, IsBoundary(_), i, cur) ==
    IF i > Len(text) THEN <<cur>>
    ELSE IF IsBoundary(text[i]) THEN <<cur>> \o RunsFrom(text, IsBoundary, i + 1, <<>>)
    ELSE RunsFrom(text, IsBoundary, i + 1, Append(cur, text[i]))

IsLf(c) == c = 10

\* a line that ended at LF loses the CR before it
WithoutCr(runs) ==
    [n \in 1..Len(runs) |->
        IF n < Len(runs) /\ runs[n] # <<>> /\ runs[n][Len(runs[n])] = 13
        THEN SubSeq(runs[n], 1, Len(runs[n]) - 1)
        ELSE runs[n]]

NotBlank(line) == \E i \in 1..Len(line) : ~IsSpace(line[i])

----------------------------------------------------------------------------
(* Properties of the base64 step of CNL._aes_decrypt *)

InputBlob == CryptedBlob(chosen_data)

\* the number of "=" a text ends with
RECURSIVE TrailingPads(_)
TrailingPads(s) ==
    IF s = <<>> \/ s[Len(s)] # B64Pad THEN 0
    ELSE 1 + TrailingPads(SubSeq(s, 1, Len(s) - 1))

\* well-formed base64: groups of four characters, all of the alphabet but
\* for at most two "=" that end the text
WellFormedBase64(s) ==
    /\ Len(s) % 4 = 0
    /\ TrailingPads(s) <= 2
    /\ \A i \in 1..(Len(s) - TrailingPads(s)) : IsB64Char(s[i])

MalformedBlob == InputBlob.t = "str" /\ ~WellFormedBase64(InputBlob.s)

\* C21: for every payload whose cipher text is malformed base64 (a character
\* outside the alphabet, or wrong padding or length), decrypt fails with the
\* decode error and returns no URLs.
C21_MalformedBase64Fails ==
    (cnl_pc \in {"returned", "decrypt_raised"} /\ MalformedBlob) =>
        /\ cnl_pc = "decrypt_raised"
        /\ cnl_err = "ValueError"
        /\ cnl_urls = <<>>

----------------------------------------------------------------------------
(* Properties of solve_captcha: image sizes and modes *)

\* every fetched image has been normalized
Normalized(p) == Len(raw_ids[p]) >= 2 /\ Len(pil_images[p]) = Len(raw_ids[p])

\* two candidates whose normalized images differ in width or height
SizesDiffer(p) ==
    \E i, j \in Candidates(p) : PilAt(p, i).size # PilAt(p, j).size

\* C22: if two candidate images do not have identical pixel dimensions
\* after normalization, the resolution ends failed: no difference score is
\* computed from the mismatched pair and no submission is issued.
C22_SizeMismatchFails ==
    \A p \in Callers :
        (Normalized(p) /\ SizesDiffer(p)) =>
            /\ cap_pc[p] \in {"diffs", "failed"}
            /\ diffs_pil[p] = <<>>
            /\ Submissions(p) = <<>>

\* images of the modes a decoder produces: colour, colour with alpha,
\* palette with a transparency index, palette without one, greyscale, and
\* greyscale with alpha (a transparent black pixel)
ImgPaletteOpaque == RawImage("P", FALSE, 1, 1, <<<<0, 1, 0, Opaque>>>>)
ImgGrey == RawImage("L", FALSE, 1, 1, <<<<7, 7, 7, Opaque>>>>)
ImgGreyAlpha == RawImage("LA", FALSE, 1, 1, <<<<0, 0, 0, 0>>>>)

ModeImages == {ImgA, ImgAlpha, ImgPalette, ImgPaletteOpaque, ImgGrey, ImgGreyAlpha, ImgWide}

ModeGateway ==
    [challenges |-> {ChallengeAnswer("list", Ascending(n)) : n \in 2..3},
     bodies |-> {ImageAnswer("response", 200, c) : c \in ModeImages},
     texts |-> {SubmitAnswer("text", <<49>>)}]

\* one call of solve_captcha whose images are of every mode
InitModes ==
    /\ gateway = [p \in Callers |-> IF p = 1 THEN ModeGateway ELSE NoGateway]
    /\ CapStart({1})
    /\ CnlIdle /\ DcIdle /\ PxIdle /\ SsIdle

SpecModes == InitModes /\ [][NextCaptcha]_vars

\* the modes with an alpha band
AlphaModes == {"RGBA", "LA", "PA", "RGBa", "La"}

CarriesAlpha(img) == img.mode \in AlphaModes \/ (img.mode = "P" /\ img.transparency)

\* a pixel over opaque white: each sample weighted by alpha, white by the rest
OverWhite(px) ==
    [c \in 1..3 |-> (2 * (px[c] * px[4] + 255 * (255 - px[4])) + 255) \div 510]

Colour(px) == [c \in 1..3 |-> px[c]]

\* C23: every input image that carries an alpha channel, in whatever mode
\* (originally, or after a palette image with a transparency index was
\* expanded), is composited over an opaque white background; every other
\* image is converted directly to 3-channel colour; the output is always
\* 3-channel with the input's dimensions.
C23_AlphaOverWhite ==
    \A p \in Callers : \A i \in 1..Len(pil_images[p]) :
        LET in == images[p][i][2]
            out == PilAt(p, i)
        IN /\ out.size = in.size
           /\ Len(out.px) = Len(in.px)
           /\ \A n \in 1..Len(out.px) :
                out.px[n] = IF CarriesAlpha(in) THEN OverWhite(in.px[n])
                            ELSE Colour(in.px[n])

----------------------------------------------------------------------------
(* Properties of solve_captcha: the id that is submitted *)

\* the ids the challenge request of this run was answered
ChallengeIds(p) == cap_calls[p][1].answer.ids

IsCandidateId(p, id) == \E k \in 1..Len(ChallengeIds(p)) : ChallengeIds(p)[k] = id

\* C24: in every run of solve_captcha that issues a submission, the
\* submitted and returned id is an element of the candidate id list returned
\* by the challenge request of that same run.
C24_SubmittedIdIsCandidate ==
    \A p \in Callers :
        /\ \A n \in 1..Len(Submissions(p)) : IsCandidateId(p, Submissions(p)[n].pC)
        /\ cap_pc[p] = "done" =>
              /\ Len(Submissions(p)) = 1
              /\ cap_result[p].captcha_id = Submissions(p)[1].pC
              /\ IsCandidateId(p, cap_result[p].captcha_id)

\* the last of the candidates [2, 2, 1] is the different one
C24_Witness ==
    /\ cap_pc[1] = "done"
    /\ ChallengeIds(1) = <<2, 2, 1>>
    /\ images[1] = <<<<2, ImgA>>, <<2, ImgA>>, <<1, ImgB>>>>
    /\ Submissions(1)[1].pC = 1
    /\ cap_result[1].captcha_id = 1

----------------------------------------------------------------------------
(* providers/sessions/dl.py: the stored session.  A thread runs            *)
(* get_dl_download_links or dl_search; both call                           *)
(* retrieve_and_validate_session and then fetch_via_requests_session,      *)
(* which calls it again.  Every access of the database and every request   *)
(* is a step of its own, so that the steps of two threads interleave.      *)

max_pages == 5

\* `not token`
NoTokenStored(token) == token.t \in {"none", "empty"}

\* base64.b64encode(pickle.dumps(sess)).decode("utf-8")
Pickle(obj) == Token("pickle", obj)

LoadAnything(token) ==
    IF token.t = "pickle" THEN Ok(token.obj) ELSE Raise("ValueError")

\* base64.b64decode, pickle.loads and the isinstance check
LoadSession(token) ==
    IF token.t = "pickle" /\ token.obj.t = "session" THEN Ok(token.obj)
    ELSE Raise("ValueError")

\* `not xf_session or not xf_cookie`
MissingCredentials(c) == ~Truthy(c.xf_session) \/ ~Truthy(c.xf_cookie)

\* how the request of the main page may end: the marker is in r.text, it is
\* not, sess.get raises
LoginOutcomes == {"ok", "nomarker", "raise"}

LoginUnchecked(outcome) == outcome # "raise"

\* the try block of create_and_persist_session reaches its end: sess.get
\* returned and 'data-logged-in="true"' is in r.text
LoggedIn(outcome) == outcome = "ok"

\* `not sess`
NoSessionGiven(s) == s = NoSession

\* retrieve_and_validate_session returns s to the caller at dl_site[th]:
\* get_dl_download_links / dl_search go on to fetch_via_requests_session or
\* return; fetch_via_requests_session goes on to the request or raises
ReturnSession(th, s) ==
    /\ sess' = [sess EXCEPT ![th] = s]
    /\ IF dl_site[th] = "outer"
       THEN IF NoSessionGiven(s)
            THEN /\ dl_pc' = [dl_pc EXCEPT ![th] = "done"]
                 /\ dl_ret' = [dl_ret EXCEPT ![th] = "nosession"]
                 /\ UNCHANGED <<dl_site, page_num>>
            ELSE /\ dl_pc' = [dl_pc EXCEPT ![th] = "retrieve"]
                 /\ dl_site' = [dl_site EXCEPT ![th] = "fetch"]
                 /\ page_num' = [page_num EXCEPT ![th] =
                                    IF dl_kind[th] = "search" THEN 1 ELSE 0]
                 /\ UNCHANGED dl_ret
       ELSE /\ dl_pc' = [dl_pc EXCEPT ![th] =
                            IF NoSessionGiven(s) THEN "invalidate" ELSE "request"]
            /\ UNCHANGED <<dl_site, page_num, dl_ret>>

\* retrieve_and_validate_session up to its return or its call of
\* create_and_persist_session
Retrieve(th) ==
    /\ dl_pc[th] = "retrieve"
    /\ LET token == store
           loaded == LoadSession(token)
       IN IF ~NoTokenStored(token) /\ loaded.ok
          THEN ReturnSession(th, loaded.val)
          ELSE /\ dl_pc' = [dl_pc EXCEPT ![th] = "create"]
               /\ UNCHANGED <<dl_site, sess, page_num, dl_ret>>
    /\ UNCHANGED <<credentials, store, next_id, dl_kind, login, resp, search_id, dl_calls>>
    /\ UNCHANGED <<cnl_vars, dc_vars, px_vars, cap_vars>>

\* create_and_persist_session up to the end of its try block
CreateCheck(th) ==
    /\ dl_pc[th] = "create"
    /\ IF MissingCredentials(credentials)
       THEN /\ login' = [login EXCEPT ![th] = "missing"]
            /\ ReturnSession(th, NoSession)
            /\ UNCHANGED next_id
       ELSE \E outcome \in LoginOutcomes :
            /\ login' = [login EXCEPT ![th] = outcome]
            /\ next_id' = next_id + 1
            /\ IF LoggedIn(outcome)
               THEN /\ sess' = [sess EXCEPT ![th] = Session(next_id)]
                    /\ dl_pc' = [dl_pc EXCEPT ![th] = "cps_store"]
                    /\ UNCHANGED <<dl_site, page_num, dl_ret>>
               ELSE ReturnSession(th, NoSession)
    /\ UNCHANGED <<credentials, store, dl_kind, resp, search_id, dl_calls>>
    /\ UNCHANGED <<cnl_vars, dc_vars, px_vars, cap_vars>>

\* create_and_persist_session: update_store and the return
CreateStore(th) ==
    /\ dl_pc[th] = "cps_store"
    /\ store' = Pickle(sess[th])
    /\ ReturnSession(th, sess[th])
    /\ UNCHANGED <<credentials, next_id, dl_kind, login, resp, search_id, dl_calls>>
    /\ UNCHANGED <<cnl_vars, dc_vars, px_vars, cap_vars>>

\* what a request may be answered: a response, or sess.get raises
Raises == [t |-> "raise", status_code |-> 0, url_id |-> NoId, rows |-> 0]

ThreadPages == {Raises, Response(200, NoId, 1), Response(200, NoId, 0), Response(404, NoId, 0)}

SearchPages ==
    {Raises, Response(200, 7, 1), Response(200, NoId, 1), Response(200, 7, 0),
     Response(404, 7, 1)}

\* one request sent with the session: the page asked for (0: a thread page),
\* the search id in its URL, the answer
Request(page, id, answer) == [page |-> page, search_id |-> id, answer |-> answer]

\* fetch_via_requests_session: sess.get(target_url, ...)
SendRequest(th) ==
    /\ dl_pc[th] = "request"
    /\ \E answer \in IF dl_kind[th] = "search" THEN SearchPages ELSE ThreadPages :
        /\ dl_calls' = [dl_calls EXCEPT ![th] =
                           Append(@, Request(page_num[th],
                                             IF page_num[th] >= 2 THEN search_id[th] ELSE NoId,
                                             answer))]
        /\ IF answer.t = "raise"
           THEN /\ dl_pc' = [dl_pc EXCEPT ![th] = "invalidate"]
                /\ UNCHANGED resp
           ELSE /\ dl_pc' = [dl_pc EXCEPT ![th] = "persist"]
                /\ resp' = [resp EXCEPT ![th] = answer]
    /\ UNCHANGED <<credentials, store, next_id, dl_kind, dl_site, sess, login, page_num,
                   search_id, dl_ret>>
    /\ UNCHANGED <<cnl_vars, dc_vars, px_vars, cap_vars>>

\* fetch_via_requests_session: _persist_session_to_db(shared_state, sess) and
\* the return of the response
Persist(th) ==
    /\ dl_pc[th] = "persist"
    /\ store' = Pickle(sess[th])
    /\ dl_pc' = [dl_pc EXCEPT ![th] = IF dl_kind[th] = "search" THEN "page" ELSE "extract"]
    /\ UNCHANGED <<credentials, next_id, dl_kind, dl_site, sess, login, resp, page_num,
                   search_id, dl_calls, dl_ret>>
    /\ UNCHANGED <<cnl_vars, dc_vars, px_vars, cap_vars>>

\* get_dl_download_links after the response: the status check and the links
Extract(th) ==
    /\ dl_pc[th] = "extract"
    /\ dl_pc' = [dl_pc EXCEPT ![th] = "done"]
    /\ dl_ret' = [dl_ret EXCEPT ![th] =
                     IF resp[th].status_code # 200 THEN "status"
                     ELSE IF resp[th].rows = 0 THEN "nolinks"
                     ELSE "links"]
    /\ UNCHANGED <<credentials, store, next_id, dl_kind, dl_site, sess, login, resp,
                   page_num, search_id, dl_calls>>
    /\ UNCHANGED <<cnl_vars, dc_vars, px_vars, cap_vars>>

\* the except clause of get_dl_download_links and of dl_search:
\* invalidate_session(shared_state)
Invalidate(th) ==
    /\ dl_pc[th] = "invalidate"
    /\ store' = NoToken
    /\ dl_pc' = [dl_pc EXCEPT ![th] = "done"]
    /\ dl_ret' = [dl_ret EXCEPT ![th] = "error"]
    /\ UNCHANGED <<credentials, next_id, dl_kind, dl_site, sess, login, resp, page_num,
                   search_id, dl_calls>>
    /\ UNCHANGED <<cnl_vars, dc_vars, px_vars, cap_vars>>

\* the cookie values of the configuration
CredentialSets ==
    {Credentials(PyStr(<<97>>), PyStr(<<98>>)),
     Credentials(PyNone, PyStr(<<98>>)),
     Credentials(PyStr(<<97>>), PyStr(<<>>))}

\* what the database may hold at the start: nothing, "", a text that does
\* not load, the pickle of a dict, the pickle of a session
Stores ==
    {NoToken, Token("empty", NoSession), Token("garbage", NoSession),
     Pickle(Foreign), Pickle(Session(0))}

\* the threads start the functions in `kinds`
SsStart(kinds) ==
    /\ credentials \in CredentialSets
    /\ store \in Stores
    /\ next_id = 1
    /\ dl_kind = kinds
    /\ dl_pc = [th \in Threads |-> IF kinds[th] = "idle" THEN "idle" ELSE "retrieve"]
    /\ dl_site = [th \in Threads |-> "outer"]
    /\ sess = [th \in Threads |-> NoSession]
    /\ login = [th \in Threads |-> ""]
    /\ resp = [th \in Threads |-> NoResponse]
    /\ page_num = [th \in Threads |-> 0]
    /\ search_id = [th \in Threads |-> NoId]
    /\ dl_calls = [th \in Threads |-> <<>>]
    /\ dl_ret = [th \in Threads |-> ""]

\* two threads in get_dl_download_links
InitSession ==
    /\ SsStart([th \in Threads |-> "download"])
    /\ CnlIdle /\ DcIdle /\ PxIdle /\ CapIdle

NextSession ==
    \E th \in Threads :
        \/ Retrieve(th)
        \/ CreateCheck(th)
        \/ CreateStore(th)
        \/ SendRequest(th)
        \/ Persist(th)
        \/ Extract(th)
        \/ Invalidate(th)

SpecSession == InitSession /\ [][NextSession]_vars

----------------------------------------------------------------------------
(* Properties of the stored session *)

\* invalidate_session has run
Invalidated == \E th \in Threads : dl_pc[th] = "done" /\ dl_ret[th] = "error"

\* the step is the update_store of create_and_persist_session
CreateStoreStep == \E th \in Threads : dl_pc[th] = "cps_store" /\ dl_pc'[th] # "cps_store"

\* C25: once invalidate_session has deleted the stored session, the store
\* holds no session until create_and_persist_session succeeds: no step other
\* than the update_store of create_and_persist_session stores a session,
\* under any interleaving of invalidate_session with an in-flight
\* fetch_via_requests_session.
C25_NoStaleSessionStored ==
    [][(Invalidated /\ store = NoToken /\ store' # NoToken) => CreateStoreStep]_vars

\* the thread is about to write the store in create_and_persist_session
AboutToStore(th) == dl_pc[th] = "cps_store"

\* the step of the thread ends the login check of create_and_persist_session
CheckStep(th) == dl_pc[th] = "create" /\ dl_pc'[th] # "create"

\* the step makes retrieve_and_validate_session return to its caller
ReturnStep(th) ==
    /\ dl_pc[th] \in {"retrieve", "create", "cps_store"}
    /\ dl_pc'[th] \notin {"retrieve", "create", "cps_store"} \/ dl_site'[th] # dl_site[th]

\* C26: create_and_persist_session writes to the session store only after the
\* login check succeeded: when credentials are missing, the check request
\* raises, or the page lacks the logged-in marker, it returns None and leaves
\* the store unchanged; retrieve_and_validate_session returns either a
\* Session object or None, never another value.
C26_StoreOnlyAfterLogin ==
    /\ [](\A th \in Threads :
            AboutToStore(th) =>
                /\ login[th] = "ok"
                /\ ~MissingCredentials(credentials)
                /\ sess[th].t = "session")
    /\ [][\A th \in Threads :
            /\ CheckStep(th) =>
                /\ store' = store
                /\ MissingCredentials(credentials) <=> login'[th] = "missing"
                /\ login'[th] \in {"missing", "raise", "nomarker", "ok"}
                /\ login'[th] # "ok" =>
                      /\ sess'[th] = NoSession
                      /\ ~AboutToStore(th)'
                      /\ ReturnStep(th)
            /\ (AboutToStore(th) /\ ~AboutToStore(th)') =>
                  /\ store' = Pickle(sess[th])
                  /\ sess'[th] = sess[th]
            /\ ReturnStep(th) => sess'[th].t \in {"session", "none"}
            /\ (ReturnStep(th) /\ dl_pc[th] = "retrieve") => store = Pickle(sess'[th])]_vars

\* thread 1 gave up after a login check that raised and left the unreadable
\* token alone; thread 2 then logged in, stored its session and used it
C26_Witness ==
    /\ login[1] = "raise" /\ dl_ret[1] = "nosession" /\ sess[1] = NoSession
    /\ dl_calls[1] = <<>>
    /\ login[2] = "ok" /\ dl_ret[2] = "links" /\ sess[2] = Session(2)
    /\ store = Pickle(Session(2))

----------------------------------------------------------------------------
(* search/sources/dl.py: the pagination of dl_search.  The rows of a page  *)
(* are parsed inside a try block of their own and only fill `releases`, so *)
(* a page is represented by its status, its URL and its number of rows.    *)

SkipIdCheck(id) == FALSE

\* `not search_id`
NoSearchId(id) == id = NoId

\* search_id after `if page_num == 1 and not search_id:` and the re.search
ExtractId(page, id, response) ==
    IF page = 1 /\ NoSearchId(id) THEN response.url_id ELSE id

\* the body of `for page_num in range(1, max_pages + 1)` after the response
\* of the page has arrived, and the head of the next iteration
Page(th) ==
    /\ dl_pc[th] = "page"
    /\ LET search_response == resp[th]
           id == ExtractId(page_num[th], search_id[th], search_response)
       IN IF search_response.status_code # 200
          THEN /\ dl_pc' = [dl_pc EXCEPT ![th] = "done"]
               /\ dl_ret' = [dl_ret EXCEPT ![th] = "status"]
               /\ UNCHANGED <<search_id, page_num>>
          ELSE /\ search_id' = [search_id EXCEPT ![th] = id]
               /\ IF search_response.rows = 0
                  THEN /\ dl_pc' = [dl_pc EXCEPT ![th] = "done"]
                       /\ dl_ret' = [dl_ret EXCEPT ![th] = "empty"]
                       /\ UNCHANGED page_num
                  ELSE IF page_num[th] = max_pages
                  THEN /\ dl_pc' = [dl_pc EXCEPT ![th] = "done"]
                       /\ dl_ret' = [dl_ret EXCEPT ![th] = "exhausted"]
                       /\ UNCHANGED page_num
                  ELSE /\ page_num' = [page_num EXCEPT ![th] = @ + 1]
                       /\ IF NoSearchId(id)
                          THEN /\ dl_pc' = [dl_pc EXCEPT ![th] = "done"]
                               /\ dl_ret' = [dl_ret EXCEPT ![th] = "noid"]
                          ELSE /\ dl_pc' = [dl_pc EXCEPT ![th] = "retrieve"]
                               /\ UNCHANGED dl_ret
    /\ UNCHANGED <<credentials, store, next_id, dl_kind, dl_site, sess, login, resp,
                   dl_calls>>
    /\ UNCHANGED <<cnl_vars, dc_vars, px_vars, cap_vars>>

\* thread 1 in dl_search, thread 2 in get_dl_download_links
InitSearch ==
    /\ SsStart([th \in Threads |-> IF th = 1 THEN "search" ELSE "download"])
    /\ CnlIdle /\ DcIdle /\ PxIdle /\ CapIdle

NextSearch == NextSession \/ \E th \in Threads : Page(th)

SpecSearch == InitSearch /\ [][NextSearch]_vars

\* the answer is a page with status 200 and at least one result row
GoodPage(answer) == answer.t = "response" /\ answer.status_code = 200 /\ answer.rows >= 1

\* C27: dl_search sends at most 5 page requests, for the page numbers 1, 2,
\* ... in increasing order with no gap; a page k >= 2 is requested only if a
\* search id was extracted from the page-1 response and every earlier page
\* returned status 200 with at least one result row; after the first failing
\* or empty page, and after the search has returned, no page is requested.
C27_Pagination ==
    /\ [](\A th \in Threads :
            dl_kind[th] = "search" =>
                /\ Len(dl_calls[th]) <= 5
                /\ \A k \in 1..Len(dl_calls[th]) :
                    /\ dl_calls[th][k].page = k
                    /\ k >= 2 =>
                        /\ dl_calls[th][1].answer.url_id # NoId
                        /\ dl_calls[th][k].search_id = dl_calls[th][1].answer.url_id
                        /\ \A j \in 1..(k - 1) : GoodPage(dl_calls[th][j].answer))
    /\ [][\A th \in Threads :
            /\ dl_calls'[th] = dl_calls[th] \/ Len(dl_calls'[th]) = Len(dl_calls[th]) + 1
            /\ dl_pc[th] = "done" => (dl_pc'[th] = "done" /\ dl_calls'[th] = dl_calls[th])]_vars

\* five pages were requested and the loop ran out
C27_Witness ==
    /\ dl_pc[1] = "done" /\ dl_ret[1] = "exhausted"
    /\ Len(dl_calls[1]) = 5
    /\ page_num[1] = 5
    /\ search_id[1] = 7
    /\ dl_calls[1][5].page = 5 /\ dl_calls[1][5].search_id = 7

============================================================================
